---- MODULE Spec2Model ----
(***************************************************************************)
(* A model of seckill.py: the network reconciler (NetworkManager), the     *)
(* set-up phase of main() and the acquisition retry loop of main().        *)
(*                                                                         *)
(* A Python dict is a function whose domain is a set of strings; the       *)
(* persisted store is the DEFAULT section of api.conf, a dict from keys to *)
(* strings in which a key may be missing.  The provider (the oci CLI and   *)
(* SDK) is a record of resource lists; every CLI invocation may fail, the  *)
(* calls that fail during one handler being the input F of that handler.   *)
(***************************************************************************)
EXTENDS Integers, Sequences, FiniteSets, TLC

VARIABLES
    store,          \* DEFAULT section of api.conf (self.config / conf)
    prov,           \* the provider's network resources
    pc,             \* position of the program
    net_ids,        \* dict returned by the last ensure_network call
    raised,         \* the last ensure_network call ended in an exception
    calls,          \* provider calls of the current run, in order
    ncalls,         \* ensure_network invocations so far
    locals,         \* main(): image_id, vcn_id, nsg_id, availability_domain, subnet_id;
                    \* notifier; get_time_interval(): time_input
    user_config,    \* main(): user_config (arch, interval)
    loop,           \* main(): current_interval and the bookkeeping of the retry loop
    instance,       \* the provider's lifecycle state of the launched instance
    notifications,  \* titles handed to DingTalkNotifier.send_notification, in order
    interrupted     \* a KeyboardInterrupt has been delivered

netVars == <<store, prov, net_ids, raised, calls, ncalls>>

loopVars == <<user_config, loop, instance, notifications, interrupted>>

vars == <<netVars, pc, locals, loopVars>>

(***************************************************************************)
(* Bounds of the model.                                                    *)
(***************************************************************************)
MaxCalls == 2

(***************************************************************************)
(* Dicts.                                                                  *)
(***************************************************************************)
NoConfig == [k \in {} |-> ""]

Restrict(f, S) == [k \in S |-> f[k]]

\* dict.get(key, '')
Get(d, k) == IF k \in DOMAIN d THEN d[k] ELSE ""

\* dict.update(other)
Update(d, other) ==
    [k \in DOMAIN d \cup DOMAIN other |-> IF k \in DOMAIN other THEN other[k] ELSE d[k]]

\* {k: v for k, v in d.items() if v}
NonEmpty(d) == Restrict(d, {k \in DOMAIN d : d[k] # ""})

(***************************************************************************)
(* The provider.  A resource is a record; a list call returns the          *)
(* resources in the provider's order, a created resource is listed last.   *)
(***************************************************************************)
\* a VCN that exists before the program runs has no IPv6 block of its own
Vcn(id) == [id |-> id, name |-> "name-" \o id, ipv6 |-> <<>>]

Res(id, vcn) == [id |-> id, vcn |-> vcn, rules |-> <<>>]

SecurityList(id, vcn, ingress, egress) ==
    [id |-> id, vcn |-> vcn, ingress |-> ingress, egress |-> egress]

\* the security list a VCN is created with: SSH in, IPv4 out
DefaultSecurityList(vcn) == SecurityList("sl-" \o vcn, vcn, <<"tcp22">>, <<"0.0.0.0/0">>)

InVcn(list, vcn_id) == SelectSeq(list, LAMBDA r : r.vcn = vcn_id)

ById(list, id) == SelectSeq(list, LAMBDA r : r.id = id)

Ids(list) == {list[i].id : i \in 1..Len(list)}

\* identifiers the provider hands out for created resources, in this order
NewVcnIds == <<"v3", "v4", "v5", "v6", "v7", "v8">>
NewRtIds == <<"r3", "r4", "r5", "r6", "r7", "r8">>
NewIgwIds == <<"g3", "g4", "g5", "g6", "g7", "g8">>
NewSubnetIds == <<"s3", "s4", "s5", "s6", "s7", "s8">>
NewNsgIds == <<"n3", "n4", "n5", "n6", "n7", "n8">>

Fresh(pool, used) ==
    pool[CHOOSE i \in 1..Len(pool) :
            /\ pool[i] \notin used
            /\ \A j \in 1..(i - 1) : pool[j] \in used]

\* the provider still has an identifier to hand out
CanCreate(p) ==
    /\ ~(\A i \in 1..Len(NewVcnIds) : NewVcnIds[i] \in Ids(p.vcn))
    /\ ~(\A i \in 1..Len(NewNsgIds) : NewNsgIds[i] \in Ids(p.nsg))

\* one entry of the call log: the CLI command, its argument and how it ended:
\* "ok", "notfound" (the provider has no such resource) or "error" (the call failed)
Call(op, arg, res) == [op |-> op, arg |-> arg, res |-> res]

Outcome(op, F, data) ==
    IF op \in F THEN "error" ELSE IF data = <<>> THEN "notfound" ELSE "ok"

ListOutcome(op, F) == IF op \in F THEN "error" ELSE "ok"

\* what the provider answers to the list commands scoped to a VCN
oci_subnet_list_unscoped(p, vcn_id) == p.subnet

oci_subnet_list(p, vcn_id) == InVcn(p.subnet, vcn_id)

oci_igw_list(p, vcn_id) == InVcn(p.igw, vcn_id)

oci_rt_list(p, vcn_id) == InVcn(p.rt, vcn_id)

\* BaseManager._run_cli: the parsed output, or {"data": []} on any failure
_run_cli(op, F, out) == IF op \in F THEN <<>> ELSE out

(***************************************************************************)
(* NetworkManager: the persisted network configuration.                    *)
(***************************************************************************)
NetConfigKeys ==
    {"vcn_id", "vcn_name", "subnet_id", "internet_gateway_id", "route_table_id", "nsg_id"}

_get_network_config(s) == [k \in NetConfigKeys |-> Get(s, k)]

\* a write that replaces the topology: a key whose new value is empty is dropped
_save_network_config_replace(s, net_config) ==
    Update(Restrict(s, DOMAIN s \ DOMAIN net_config), NonEmpty(net_config))

\* the write without the filter on empty values
_save_network_config_all(s, net_config) == Update(s, net_config)

_save_network_config(s, net_config) == Update(s, NonEmpty(net_config))

network_keys ==
    {"vcn_id", "vcn_name", "subnet_id", "internet_gateway_id", "route_table_id",
     "availability_domain"}

\* a clear that leaves the store as it is
_clear_network_config_keep(s) == s

_clear_network_config(s) == Restrict(s, DOMAIN s \ network_keys)

(***************************************************************************)
(* NetworkManager: validation of the persisted identifiers.                *)
(***************************************************************************)
\* a validation that takes a failed get for a resource that exists
_validate_resource_exists_error_found(op, resource_id, out, F) ==
    op \in F \/ (out # <<>> /\ out[1].id = resource_id)

\* data.get('data', {}).get('id') == resource_id; a failed call gives
\* {"data": []}, whose .get raises and is caught: False
_validate_resource_exists(op, resource_id, out, F) ==
    LET data == _run_cli(op, F, out)
    IN  data # <<>> /\ data[1].id = resource_id

_validate_vcn_exists(vcn_id, p, F) ==
    _validate_resource_exists("vcn_get", vcn_id, ById(p.vcn, vcn_id), F)

_validate_subnet_exists(subnet_id, p, F) ==
    _validate_resource_exists("subnet_get", subnet_id, ById(p.subnet, subnet_id), F)

_validate_igw_exists(igw_id, p, F) ==
    _validate_resource_exists("igw_get", igw_id, ById(p.igw, igw_id), F)

\* the route table looked up with the gateway's command
_validate_route_table_exists_igw(route_table_id, p, F) ==
    _validate_resource_exists("igw_get", route_table_id, ById(p.igw, route_table_id), F)

_validate_route_table_exists(route_table_id, p, F) ==
    _validate_resource_exists("rt_get", route_table_id, ById(p.rt, route_table_id), F)

\* [ok, calls]: the result and the get calls issued, in order
_validate_existing_resources(net_config, p, F) ==
    LET has_any_resource ==
            \/ net_config["vcn_id"] # ""
            \/ net_config["subnet_id"] # ""
            \/ net_config["internet_gateway_id"] # ""
            \/ net_config["route_table_id"] # ""
        vcn_id == net_config["vcn_id"]
        subnet_id == net_config["subnet_id"]
        igw_id == net_config["internet_gateway_id"]
        rt_id == net_config["route_table_id"]
        c1 == IF vcn_id # ""
              THEN <<Call("vcn_get", vcn_id, Outcome("vcn_get", F, ById(p.vcn, vcn_id)))>>
              ELSE <<>>
        ok1 == vcn_id = "" \/ _validate_vcn_exists(vcn_id, p, F)
        c2 == IF subnet_id # ""
              THEN <<Call("subnet_get", subnet_id,
                          Outcome("subnet_get", F, ById(p.subnet, subnet_id)))>>
              ELSE <<>>
        ok2 == subnet_id = "" \/ _validate_subnet_exists(subnet_id, p, F)
        c3 == IF igw_id # ""
              THEN <<Call("igw_get", igw_id, Outcome("igw_get", F, ById(p.igw, igw_id)))>>
              ELSE <<>>
        ok3 == igw_id = "" \/ _validate_igw_exists(igw_id, p, F)
        c4 == IF rt_id # ""
              THEN <<Call("rt_get", rt_id, Outcome("rt_get", F, ById(p.rt, rt_id)))>>
              ELSE <<>>
        ok4 == rt_id = "" \/ _validate_route_table_exists(rt_id, p, F)
    IN  IF ~has_any_resource THEN [ok |-> FALSE, calls |-> <<>>]
        ELSE IF ~ok1 THEN [ok |-> FALSE, calls |-> c1]
        ELSE IF ~ok2 THEN [ok |-> FALSE, calls |-> c1 \o c2]
        ELSE IF ~ok3 THEN [ok |-> FALSE, calls |-> c1 \o c2 \o c3]
        ELSE IF ~ok4 THEN [ok |-> FALSE, calls |-> c1 \o c2 \o c3 \o c4]
        ELSE [ok |-> TRUE, calls |-> c1 \o c2 \o c3 \o c4]

(***************************************************************************)
(* NetworkManager: discovery of remote resources.                          *)
(***************************************************************************)
\* 'id' of the last element of a list result
FirstId_last(data) == IF data # <<>> THEN data[Len(data)].id ELSE ""

\* 'id' of the first element of a list result, '' for an empty list
FirstId(data) == IF data # <<>> THEN data[1].id ELSE ""

\* a discovery that is skipped: no call, nothing found
_query_remote_existing_resources_skipped(p, F) ==
    [found |-> FALSE, cfg |-> NoConfig, calls |-> <<>>]

\* [found, cfg, calls]: found is FALSE where the source returns None
_query_remote_existing_resources(p, F) ==
    LET vcns == _run_cli("vcn_list", F, p.vcn)
        c0 == <<Call("vcn_list", "", ListOutcome("vcn_list", F))>>
    IN  IF vcns = <<>> THEN [found |-> FALSE, cfg |-> NoConfig, calls |-> c0]
        ELSE
        LET vcn == vcns[1]
            vcn_id == vcn.id
            vcn_name == vcn.name
            subnets == _run_cli("subnet_list", F, oci_subnet_list(p, vcn_id))
            subnet_id == FirstId(subnets)
            igws == _run_cli("igw_list", F, oci_igw_list(p, vcn_id))
            igw_id == FirstId(igws)
            route_tables == _run_cli("rt_list", F, oci_rt_list(p, vcn_id))
            route_table_id == FirstId(route_tables)
            availability_domains == _run_cli("ad_list", F, p.ad)
            availability_domain ==
                IF availability_domains # <<>> THEN availability_domains[1] ELSE ""
            remote_net_config ==
                [vcn_id |-> vcn_id,
                 vcn_name |-> vcn_name,
                 subnet_id |-> subnet_id,
                 internet_gateway_id |-> igw_id,
                 route_table_id |-> route_table_id,
                 availability_domain |-> availability_domain,
                 nsg_id |-> ""]
            cs == c0 \o
                  <<Call("subnet_list", vcn_id, ListOutcome("subnet_list", F)),
                    Call("igw_list", vcn_id, ListOutcome("igw_list", F)),
                    Call("rt_list", vcn_id, ListOutcome("rt_list", F)),
                    Call("ad_list", "", ListOutcome("ad_list", F))>>
        IN  IF vcn_id = "" THEN [found |-> FALSE, cfg |-> NoConfig, calls |-> c0]
            ELSE [found |-> TRUE, cfg |-> remote_net_config, calls |-> cs]

(***************************************************************************)
(* NetworkManager: the creation pass.  A step takes and returns            *)
(* st = [prov, cfg, calls, raised]: the provider, net_config, the call log *)
(* and whether an exception is propagating.                                *)
(***************************************************************************)
\* self._region_base_name() for region ap-singapore-1
base == "singapore"

Log(st, op, arg, res) == Append(st.calls, Call(op, arg, res))

\* the provider creates a VCN together with its default route table and its
\* default security list
ProvCreateVcn(p, id, name) ==
    [p EXCEPT !.vcn = Append(@, [id |-> id, name |-> name, ipv6 |-> <<"ipv6-" \o id>>]),
              !.rt = Append(@, Res(Fresh(NewRtIds, Ids(p.rt)), id)),
              !.sl = Append(@, DefaultSecurityList(id))]

_ensure_vcn(st, F) ==
    LET id == Fresh(NewVcnIds, Ids(st.prov.vcn))
        vcn_display == base
        created == _run_cli("vcn_create", F, <<Vcn(id)>>)
        vcn_id == FirstId(created)
    IN  IF vcn_id = ""
        THEN [st EXCEPT !.calls = Log(st, "vcn_create", "", "error"), !.raised = TRUE]
        ELSE [st EXCEPT !.prov = ProvCreateVcn(st.prov, id, vcn_display),
                        !.cfg = [@ EXCEPT !["vcn_name"] = vcn_display, !["vcn_id"] = vcn_id],
                        !.calls = Log(st, "vcn_create", "", "ok")]

\* BaseManager._run_cli_with_validation and _validate_response_data: the id of
\* the created resource, or an exception ("" here)
_run_cli_with_validation(op, F, id) == IF op \in F THEN "" ELSE id

_create_internet_gateway(vcn_id, st, F) ==
    LET id == Fresh(NewIgwIds, Ids(st.prov.igw))
        igw_id == _run_cli_with_validation("igw_create", F, id)
    IN  IF igw_id = ""
        THEN [st EXCEPT !.calls = Log(st, "igw_create", vcn_id, "error"), !.raised = TRUE]
        ELSE [st EXCEPT !.prov.igw = Append(@, Res(igw_id, vcn_id)),
                        !.cfg["internet_gateway_id"] = igw_id,
                        !.calls = Log(st, "igw_create", vcn_id, "ok")]

RouteRules(igw_id) ==
    <<[destination |-> "0.0.0.0/0", networkEntityId |-> igw_id],
      [destination |-> "::/0", networkEntityId |-> igw_id]>>

SetRules(list, id, rules) ==
    [i \in 1..Len(list) |-> IF list[i].id = id THEN [list[i] EXCEPT !.rules = rules] ELSE list[i]]

_setup_route_table(vcn_id, st, F) ==
    LET route_tables_data == _run_cli("rt_list", F, oci_rt_list(st.prov, vcn_id))
        c1 == Log(st, "rt_list", vcn_id, ListOutcome("rt_list", F))
    IN  IF route_tables_data = <<>>
        THEN [st EXCEPT !.calls = c1, !.raised = TRUE]
        ELSE
        LET default_rt == route_tables_data[1]
            rules == RouteRules(st.cfg["internet_gateway_id"])
            updated == _run_cli("rt_update", F, <<default_rt>>)
        IN  [st EXCEPT !.cfg["route_table_id"] = default_rt.id,
                       !.prov.rt = IF updated # <<>> THEN SetRules(@, default_rt.id, rules) ELSE @,
                       !.calls = Append(c1, Call("rt_update", default_rt.id,
                                                 ListOutcome("rt_update", F)))]

_create_subnet(vcn_id, st, F) ==
    LET vcn_info == _run_cli("vcn_get", F, ById(st.prov.vcn, vcn_id))
        c1 == Log(st, "vcn_get", vcn_id, Outcome("vcn_get", F, ById(st.prov.vcn, vcn_id)))
        vcn_ipv6_cidrs == IF vcn_info # <<>> THEN vcn_info[1].ipv6 ELSE <<>>
        id == Fresh(NewSubnetIds, Ids(st.prov.subnet))
        subnet_id == _run_cli_with_validation("subnet_create", F, id)
    IN  IF vcn_info = <<>> \/ vcn_ipv6_cidrs = <<>>
        THEN [st EXCEPT !.calls = c1, !.raised = TRUE]
        ELSE IF subnet_id = ""
        THEN [st EXCEPT !.calls = Append(c1, Call("subnet_create", vcn_id, "error")),
                        !.raised = TRUE]
        ELSE [st EXCEPT !.prov.subnet = Append(@, Res(subnet_id, vcn_id)),
                        !.cfg["subnet_id"] = subnet_id,
                        !.calls = Append(c1, Call("subnet_create", vcn_id, "ok"))]

\* one NSG rule of the payload: port and icmp are "" where the payload has no
\* tcpOptions / icmpOptions
Rule(protocol, source, port, icmp) ==
    [direction |-> "INGRESS", protocol |-> protocol, source |-> source,
     port |-> port, icmp |-> icmp]

rules_payload ==
    <<Rule("6", "10.0.0.0/24", "", ""),
      Rule("6", "0.0.0.0/0", "22", ""),
      Rule("1", "0.0.0.0/0", "", ""),
      Rule("6", "::/0", "22", ""),
      Rule("58", "::/0", "", "128/0")>>

\* [prov, calls] after 'nsg rules add': a failure of the call is not noticed
_add_nsg_rules(nsg_id, p, cs, F) ==
    LET added == _run_cli("nsg_rules_add", F, <<nsg_id>>)
    IN  [prov |-> IF added # <<>>
                  THEN [p EXCEPT !.nsg = SetRules(@, nsg_id,
                                                  ById(p.nsg, nsg_id)[1].rules \o rules_payload)]
                  ELSE p,
         calls |-> Append(cs, Call("nsg_rules_add", nsg_id, ListOutcome("nsg_rules_add", F)))]

_create_nsg(vcn_id, st, F) ==
    LET id == Fresh(NewNsgIds, Ids(st.prov.nsg))
        nsg_id == _run_cli_with_validation("nsg_create", F, id)
        p1 == [st.prov EXCEPT !.nsg = Append(@, Res(nsg_id, vcn_id))]
        r == _add_nsg_rules(nsg_id, p1, Log(st, "nsg_create", vcn_id, "ok"), F)
    IN  IF nsg_id = ""
        THEN [st EXCEPT !.calls = Log(st, "nsg_create", vcn_id, "error"), !.raised = TRUE]
        ELSE [st EXCEPT !.prov = r.prov, !.cfg["nsg_id"] = nsg_id, !.calls = r.calls]

_create_network_resources(vcn_id, st, F) ==
    LET s1 == _create_internet_gateway(vcn_id, st, F)
        s2 == IF s1.raised THEN s1 ELSE _setup_route_table(vcn_id, s1, F)
        s3 == IF s2.raised THEN s2 ELSE _create_subnet(vcn_id, s2, F)
        s4 == IF s3.raised THEN s3 ELSE _create_nsg(vcn_id, s3, F)
    IN  s4

(***************************************************************************)
(* NetworkManager.ensure_network: [store, prov, calls, ret, raised].       *)
(***************************************************************************)
ensure_network(s, p, F) ==
    LET net_config == _get_network_config(s)
        v == _validate_existing_resources(net_config, p, F)
        q == _query_remote_existing_resources(p, F)
        cleared == _clear_network_config(s)
        st0 == [prov |-> p, cfg |-> _get_network_config(cleared),
                calls |-> v.calls \o q.calls, raised |-> FALSE]
        st1 == _ensure_vcn(st0, F)
        st2 == IF st1.raised THEN st1
               ELSE _create_network_resources(st1.cfg["vcn_id"], st1, F)
    IN  IF v.ok
        THEN [store |-> _save_network_config(s, net_config), prov |-> p,
              calls |-> v.calls, ret |-> net_config, raised |-> FALSE]
        ELSE IF q.found
        THEN [store |-> _save_network_config(s, q.cfg), prov |-> p,
              calls |-> v.calls \o q.calls, ret |-> q.cfg, raised |-> FALSE]
        ELSE IF st2.raised
        THEN [store |-> cleared, prov |-> st2.prov,
              calls |-> st2.calls, ret |-> NoConfig, raised |-> TRUE]
        ELSE [store |-> _save_network_config(cleared, st2.cfg), prov |-> st2.prov,
              calls |-> st2.calls, ret |-> st2.cfg, raised |-> FALSE]

(***************************************************************************)
(* NSG selection: NetworkManager.get_existing_nsgs, create_default_nsg and *)
(* select_nsg.                                                             *)
(***************************************************************************)
\* the provider lists and creates NSGs only for a VCN that exists
oci_nsg_list(p, vcn_id) == InVcn(p.nsg, vcn_id)

oci_nsg_create(p, vcn_id) ==
    IF vcn_id \in Ids(p.vcn) THEN <<Res(Fresh(NewNsgIds, Ids(p.nsg)), vcn_id)>> ELSE <<>>

get_existing_nsgs(vcn_id, p, F) == _run_cli("nsg_list", F, oci_nsg_list(p, vcn_id))

\* [prov, calls, nsg_id, raised]: _run_cli(...)['data'] is [] after a failed
\* call and created_nsg['id'] raises
create_default_nsg(vcn_id, p, cs, F) ==
    LET created_nsg == _run_cli("nsg_create", F, oci_nsg_create(p, vcn_id))
    IN  IF created_nsg = <<>>
        THEN [prov |-> p, calls |-> Append(cs, Call("nsg_create", vcn_id, "error")),
              nsg_id |-> "", raised |-> TRUE]
        ELSE
        LET nsg_id == created_nsg[1].id
            r == _add_nsg_rules(nsg_id, [p EXCEPT !.nsg = Append(@, created_nsg[1])],
                                Append(cs, Call("nsg_create", vcn_id, "ok")), F)
        IN  [prov |-> r.prov, calls |-> r.calls, nsg_id |-> nsg_id, raised |-> FALSE]

(***************************************************************************)
(* NetworkManager.configure_security_list_rules.  A security list is a     *)
(* record [id, vcn, ingress, egress]: its ingress rules and the            *)
(* destinations of its egress rules.  Every command goes through _run_cli, *)
(* so a failed command answers {"data": []}.  A provider call fails when   *)
(* its command is in F, or when its position in the call log is in N.      *)
(***************************************************************************)
Fails(op, cs, F, N) == op \in F \/ (Len(cs) + 1) \in N

oci_security_list_list(p, vcn_id) == InVcn(p.sl, vcn_id)

\* security-list update --ingress-security-rules / --egress-security-rules
SetIngress(p, id, rules) ==
    [p EXCEPT !.sl = [i \in 1..Len(@) |->
                         IF @[i].id = id THEN [@[i] EXCEPT !.ingress = rules] ELSE @[i]]]

SetEgress(p, id, rules) ==
    [p EXCEPT !.sl = [i \in 1..Len(@) |->
                         IF @[i].id = id THEN [@[i] EXCEPT !.egress = rules] ELSE @[i]]]

\* a guard that never matches
_is_security_list_configured_never(s, vcn_id) == FALSE

\* configured_vcn == vcn_id; the stored values hold no surrounding blanks
_is_security_list_configured(s, vcn_id) == Get(s, "security_list_configured") = vcn_id

\* self.config['DEFAULT']['security_list_configured'] = vcn_id
_mark_security_list_configured(s, vcn_id) ==
    Update(s, [security_list_configured |-> vcn_id])

_is_our_configured_rules(rules) == rules = <<>>

\* an update that replaces the egress rules by the two permissive ones
all_rules_replaced(egress_rules, rules_to_add) == <<"0.0.0.0/0", "::/0">>

\* all_rules = egress_rules + rules_to_add
all_rules(egress_rules, rules_to_add) == egress_rules \o rules_to_add

\* [prov, calls]: the second get of the list, and the update that appends the
\* missing egress rules; a failed get answers [] and [].get raises, which is
\* caught here
_check_and_add_egress_rules(security_list_id, st, F, N) ==
    IF Fails("sl_get", st.calls, F, N)
    THEN [st EXCEPT !.calls = Append(@, Call("sl_get", security_list_id, "error"))]
    ELSE LET egress_rules == ById(st.prov.sl, security_list_id)[1].egress
             has_ipv4_rule == ~(\A i \in 1..Len(egress_rules) : egress_rules[i] # "0.0.0.0/0")
             has_ipv6_rule == ~(\A i \in 1..Len(egress_rules) : egress_rules[i] # "::/0")
             rules_to_add == (IF ~has_ipv4_rule THEN <<"0.0.0.0/0">> ELSE <<>>) \o
                             (IF ~has_ipv6_rule THEN <<"::/0">> ELSE <<>>)
             c1 == Append(st.calls, Call("sl_get", security_list_id, "ok"))
         IN  IF rules_to_add = <<>>
             THEN [st EXCEPT !.calls = c1]
             ELSE IF Fails("sl_add_egress", c1, F, N)
             THEN [st EXCEPT !.calls = Append(c1, Call("sl_add_egress", security_list_id,
                                                       "error"))]
             ELSE [prov |-> SetEgress(st.prov, security_list_id,
                                      all_rules(egress_rules, rules_to_add)),
                   calls |-> Append(c1, Call("sl_add_egress", security_list_id, "ok"))]

\* the ingress part of one pass of the loop, after the first get succeeded
clear_ingress(security_list_id, st, F, N) ==
    LET ingress_rules == ById(st.prov.sl, security_list_id)[1].ingress
        c1 == Append(st.calls, Call("sl_get", security_list_id, "ok"))
    IN  IF ingress_rules # <<>> /\ ~_is_our_configured_rules(ingress_rules)
        THEN IF Fails("sl_clear_ingress", c1, F, N)
             THEN [st EXCEPT !.calls = Append(c1, Call("sl_clear_ingress", security_list_id,
                                                       "error"))]
             ELSE [prov |-> SetIngress(st.prov, security_list_id, <<>>),
                   calls |-> Append(c1, Call("sl_clear_ingress", security_list_id, "ok"))]
        ELSE [st EXCEPT !.calls = c1]

\* [prov, calls, configured_count, raised] after the lists from the i-th on; a
\* failed first get answers [] and [].get raises out of the loop
RECURSIVE configure_each(_, _, _, _, _, _)
configure_each(security_lists, i, st, configured_count, F, N) ==
    IF i > Len(security_lists)
    THEN [prov |-> st.prov, calls |-> st.calls,
          configured_count |-> configured_count, raised |-> FALSE]
    ELSE IF Fails("sl_get", st.calls, F, N)
    THEN [prov |-> st.prov,
          calls |-> Append(st.calls, Call("sl_get", security_lists[i].id, "error")),
          configured_count |-> configured_count, raised |-> TRUE]
    ELSE configure_each(security_lists, i + 1,
                        _check_and_add_egress_rules(
                            security_lists[i].id,
                            clear_ingress(security_lists[i].id, st, F, N), F, N),
                        configured_count + 1, F, N)

\* [store, prov, calls, raised]; the except clause of the function catches
\* whatever is raised inside, so raised is FALSE
configure_security_list_rules(s, vcn_id, p, cs, F, N) ==
    IF _is_security_list_configured(s, vcn_id)
    THEN [store |-> s, prov |-> p, calls |-> cs, raised |-> FALSE]
    ELSE LET listed == IF vcn_id \in Ids(p.vcn) /\ ~Fails("sl_list", cs, F, N)
                       THEN oci_security_list_list(p, vcn_id) ELSE <<>>
             c0 == Append(cs, Call("sl_list", vcn_id,
                                   IF vcn_id \in Ids(p.vcn) /\ ~Fails("sl_list", cs, F, N)
                                   THEN "ok" ELSE "error"))
             r == configure_each(listed, 1, [prov |-> p, calls |-> c0], 0, F, N)
         IN  IF ~r.raised /\ r.configured_count > 0
             THEN [store |-> _mark_security_list_configured(s, vcn_id),
                   prov |-> r.prov, calls |-> r.calls, raised |-> FALSE]
             ELSE [store |-> s, prov |-> r.prov, calls |-> r.calls, raised |-> FALSE]

\* [store, prov, calls, nsg_id, raised]; choice is the user's answer to the
\* first question: the number of a listed NSG, or 0 for 'new'; configure is
\* the answer to the second: TRUE for 'y', FALSE for 'n'.  The last lines
\* write conf["DEFAULT"]["nsg_id"] = selected_nsg_id.
select_nsg(conf, vcn_id, p, cs, F, choice, configure) ==
    LET existing_nsgs == get_existing_nsgs(vcn_id, p, F)
        c0 == Append(cs, Call("nsg_list", vcn_id,
                              IF vcn_id \in Ids(p.vcn) THEN ListOutcome("nsg_list", F)
                              ELSE "error"))
        created == IF existing_nsgs # <<>> /\ choice # 0
                   THEN [prov |-> p, calls |-> c0,
                         nsg_id |-> existing_nsgs[choice].id, raised |-> FALSE]
                   ELSE create_default_nsg(vcn_id, p, c0, F)
        selected_nsg_id == created.nsg_id
        sl == IF configure
              THEN configure_security_list_rules(conf, vcn_id, created.prov,
                                                 created.calls, F, {})
              ELSE [store |-> conf, prov |-> created.prov, calls |-> created.calls]
    IN  IF created.raised
        THEN [store |-> conf, prov |-> created.prov, calls |-> created.calls,
              nsg_id |-> "", raised |-> TRUE]
        ELSE [store |-> Update(sl.store, [nsg_id |-> selected_nsg_id]),
              prov |-> sl.prov, calls |-> sl.calls,
              nsg_id |-> selected_nsg_id, raised |-> FALSE]

(***************************************************************************)
(* OCIInstanceManager.get_image_id: [store, image_id, calls, exited].  An  *)
(* image is a record [id, minimal, aarch64, version, created]: minimal is  *)
(* whether its display-name contains "Canonical-Ubuntu-22.04-Minimal",     *)
(* aarch64 whether its operating-system-version contains "aarch64",        *)
(* version that operating-system-version, created its time-created.        *)
(***************************************************************************)
Image(id, minimal, aarch64, version, created) ==
    [id |-> id, minimal |-> minimal, aarch64 |-> aarch64, version |-> version,
     created |-> created]

\* max(images, key=lambda x: x["time-created"]): the first of the newest
Newest(images) ==
    images[CHOOSE i \in 1..Len(images) :
              /\ \A j \in 1..Len(images) : images[j].created <= images[i].created
              /\ \A j \in 1..(i - 1) : images[j].created < images[i].created]

get_image_id(s, arch, F, listed) ==
    LET key_image == arch \o "_image"
        key_name == arch \o "_name"
        image_id == Get(s, key_image)
        image_name == Get(s, key_name)
        minimal == SelectSeq(listed, LAMBDA img : img.minimal)
        images == IF arch = "arm" THEN SelectSeq(minimal, LAMBDA img : img.aarch64)
                  ELSE SelectSeq(minimal, LAMBDA img : ~img.aarch64)
    IN  IF image_id # "" /\ image_name # ""
        THEN [store |-> s, image_id |-> image_id, calls |-> <<>>, exited |-> FALSE]
        ELSE IF "image_list" \in F
        THEN [store |-> s, image_id |-> "", calls |-> <<Call("image_list", "", "error")>>,
              exited |-> TRUE]
        ELSE IF arch \notin {"arm", "amd"} \/ images = <<>>
        THEN [store |-> s, image_id |-> "", calls |-> <<Call("image_list", "", "ok")>>,
              exited |-> TRUE]
        ELSE [store |-> Update(s, [k \in {key_image, key_name} |->
                                      IF k = key_image THEN Newest(images).id
                                      ELSE Newest(images).version]),
              image_id |-> Newest(images).id,
              calls |-> <<Call("image_list", "", "ok")>>, exited |-> FALSE]

(***************************************************************************)
(* OCIInstanceManager.get_config_or_cli: [store, value, calls, exited];    *)
(* exited is sys.exit(1).                                                  *)
(***************************************************************************)
\* a get_config_or_cli that returns the empty value where the CLI fails or
\* lists nothing
get_config_or_cli_no_exit(s, key, op, F, data) ==
    LET value == Get(s, key)
    IN  IF value # ""
        THEN [store |-> s, value |-> value, calls |-> <<>>, exited |-> FALSE]
        ELSE IF op \in F
        THEN [store |-> s, value |-> "", calls |-> <<Call(op, "", "error")>>,
              exited |-> FALSE]
        ELSE IF data = <<>>
        THEN [store |-> s, value |-> "", calls |-> <<Call(op, "", "ok")>>,
              exited |-> FALSE]
        ELSE [store |-> Update(s, [k \in {key} |-> data[1]]),
              value |-> data[1], calls |-> <<Call(op, "", "ok")>>,
              exited |-> FALSE]

\* data holds, for each element of the CLI's list, the field json_path reads
get_config_or_cli(s, key, op, F, data) ==
    LET value == Get(s, key)
    IN  IF value # ""
        THEN [store |-> s, value |-> value, calls |-> <<>>, exited |-> FALSE]
        ELSE IF op \in F
        THEN [store |-> s, value |-> "", calls |-> <<Call(op, "", "error")>>,
              exited |-> TRUE]
        ELSE IF data = <<>>
        THEN [store |-> s, value |-> "", calls |-> <<Call(op, "", "ok")>>,
              exited |-> TRUE]
        ELSE [store |-> Update(s, [k \in {key} |-> data[1]]),
              value |-> data[1], calls |-> <<Call(op, "", "ok")>>,
              exited |-> FALSE]

\* a DingTalkNotifier: webhook and secret of the DINGTALK section, "" when
\* the section or the key is missing
DingTalkNotifier(webhook, secret) == [webhook |-> webhook, secret |-> secret]

Notifiers ==
    {DingTalkNotifier("hook", "secret"), DingTalkNotifier("", "secret"),
     DingTalkNotifier("hook", "")}

\* main(): the local variables before they are assigned
NoLocals ==
    [image_id |-> "", vcn_id |-> "", nsg_id |-> "", availability_domain |-> "",
     subnet_id |-> "", time_input |-> <<>>,
     notifier |-> DingTalkNotifier("", "")]

(***************************************************************************)
(* The retry loop of main(): intervals, exceptions and their handlers.     *)
(***************************************************************************)
\* Text typed by the user is a sequence of one-character strings.
DigitChars == <<"0", "1", "2", "3", "4", "5", "6", "7", "8", "9">>

IsDigit(c) == ~(\A i \in 1..10 : DigitChars[i] # c)

DigitVal(c) == (CHOOSE i \in 1..10 : DigitChars[i] = c) - 1

\* str(n) of an int n >= 0
RECURSIVE py_str(_)
py_str(n) ==
    IF n < 10 THEN <<DigitChars[n + 1]>>
    ELSE Append(py_str(n \div 10), DigitChars[(n % 10) + 1])

\* the value of a sequence of digits
RECURSIVE DigitsValue(_)
DigitsValue(t) ==
    IF t = <<>> THEN 0
    ELSE 10 * DigitsValue(SubSeq(t, 1, Len(t) - 1)) + DigitVal(t[Len(t)])

\* int(t) of a text without blanks and underscores: an optional sign and at
\* least one digit, else ValueError
py_int(t) ==
    LET signed == t # <<>> /\ t[1] \in {"+", "-"}
        digits == IF signed THEN SubSeq(t, 2, Len(t)) ELSE t
    IN  IF digits = <<>> \/ ~(\A i \in 1..Len(digits) : IsDigit(digits[i]))
        THEN [ok |-> FALSE, value |-> 0]
        ELSE [ok |-> TRUE,
              value |-> IF signed /\ t[1] = "-" THEN 0 - DigitsValue(digits)
                        ELSE DigitsValue(digits)]

\* t.split("-")
RECURSIVE split(_)
split(t) ==
    IF \A i \in 1..Len(t) : t[i] # "-" THEN <<t>>
    ELSE LET i == CHOOSE i \in 1..Len(t) :
                     t[i] = "-" /\ \A j \in 1..(i - 1) : t[j] # "-"
         IN  <<SubSeq(t, 1, i - 1)>> \o split(SubSeq(t, i + 1, Len(t)))

\* user_config.interval as get_time_interval returns it: an int n, held as
\* <<n>>, or the str f"{min_time}-{max_time}", held as its characters
IntervalInt(n) == [type |-> "int", parts |-> <<n>>]

IntervalStr(a, b) == [type |-> "str", parts |-> py_str(a) \o <<"-">> \o py_str(b)]

NoInterval == [type |-> "", parts |-> <<>>]

\* the smallest interval get_time_interval accepts
MinTime == 10

\* a check of the lower bound only
interval_ok_min_only(min_time, max_time) == min_time >= MinTime

\* min_time >= 10 and min_time <= max_time
interval_ok(min_time, max_time) == min_time >= MinTime /\ min_time <= max_time

\* get_time_interval, one pass of its loop on the stripped input:
\* [accepted, interval]; a pass that prints an error is not accepted
get_time_interval(time_input) ==
    IF time_input = <<>> THEN [accepted |-> TRUE, interval |-> IntervalInt(60)]
    ELSE IF ~(\A i \in 1..Len(time_input) : time_input[i] # "-")
    THEN LET parts == split(time_input)
         IN  IF Len(parts) # 2 \/ ~py_int(parts[1]).ok \/ ~py_int(parts[2]).ok
             THEN [accepted |-> FALSE, interval |-> NoInterval]
             ELSE IF interval_ok(py_int(parts[1]).value, py_int(parts[2]).value)
             THEN [accepted |-> TRUE,
                   interval |-> IntervalStr(py_int(parts[1]).value,
                                            py_int(parts[2]).value)]
             ELSE [accepted |-> FALSE, interval |-> NoInterval]
    ELSE IF py_int(time_input).ok /\ py_int(time_input).value >= MinTime
    THEN [accepted |-> TRUE, interval |-> IntervalInt(py_int(time_input).value)]
    ELSE [accepted |-> FALSE, interval |-> NoInterval]

\* isinstance(interval, str) and "-" in interval: map(int, interval.split("-"))
_parse_interval_config(interval) ==
    IF interval.type = "str" /\ ~(\A i \in 1..Len(interval.parts) : interval.parts[i] # "-")
    THEN [min_interval |-> py_int(split(interval.parts)[1]).value,
          max_interval |-> py_int(split(interval.parts)[2]).value]
    ELSE [min_interval |-> interval.parts[1], max_interval |-> interval.parts[1]]

\* a draw that leaves out the upper bound, as random.randrange would
IntervalDraws_exclusive(interval) ==
    LET parsed == _parse_interval_config(interval)
    IN  IF interval.type = "str"
        THEN parsed.min_interval..(parsed.max_interval - 1)
        ELSE {interval.parts[1]}

\* random.randint(min_interval, max_interval) for a str interval, else the int
IntervalDraws(interval) ==
    LET parsed == _parse_interval_config(interval)
    IN  IF interval.type = "str"
        THEN parsed.min_interval..parsed.max_interval
        ELSE {interval.parts[1]}

\* an exception: its class, e.status of a ServiceError and str(e) as the
\* sequence of its segments
ServiceError(status, text) == [type |-> "ServiceError", status |-> status, text |-> text]

Exception(text) == [type |-> "Exception", status |-> 0, text |-> text]

NoException == [type |-> "", status |-> 0, text |-> <<>>]

\* marker in error_text
Contains(text, marker) == \E i \in 1..Len(text) : text[i] = marker

TRANSIENT_ERROR_MARKERS ==
    {"Remote end closed connection without response",
     "Connection aborted",
     "Read timed out",
     "Max retries exceeded",
     "temporarily unavailable",
     "Temporary failure in name resolution",
     "Connection reset by peer"}

\* a test that takes only a text equal to a marker for transient
_is_transient_error_exact(e) ==
    \E marker \in TRANSIENT_ERROR_MARKERS : e.text = <<marker>>

_is_transient_error(e) == \E marker \in TRANSIENT_ERROR_MARKERS : Contains(e.text, marker)

\* error_handlers with 400 handled as a retryable status
error_handlers_400_retry ==
    (500 :> [retry |-> TRUE, msg |-> "internal server error, retry",
             special_case |-> <<"Out of host capacity", "out of host capacity, retry">>])
    @@ (429 :> [retry |-> TRUE, msg |-> "too many requests, retry"])
    @@ (400 :> [retry |-> TRUE, msg |-> "account limit exceeded, stop"])

\* error_handlers whose 429 entry carries a notification title and stops
error_handlers_429_notify ==
    (500 :> [retry |-> TRUE, msg |-> "internal server error, retry",
             special_case |-> <<"Out of host capacity", "out of host capacity, retry">>])
    @@ (429 :> [retry |-> FALSE, msg |-> "too many requests, retry",
                title |-> "final failure"])
    @@ (400 :> [retry |-> FALSE, msg |-> "account limit exceeded, stop",
                title |-> "final failure"])

error_handlers ==
    (500 :> [retry |-> TRUE, msg |-> "internal server error, retry",
             special_case |-> <<"Out of host capacity", "out of host capacity, retry">>])
    @@ (429 :> [retry |-> TRUE, msg |-> "too many requests, retry"])
    @@ (400 :> [retry |-> FALSE, msg |-> "account limit exceeded, stop",
                title |-> "final failure"])

default_handler == [retry |-> FALSE, msg |-> "unknown error, stop", title |-> "final failure"]

\* [retry, logged, notifications]: the return value, the line logged and the
\* notifications sent so far
handle_service_error(e, current_interval, notes) ==
    LET status_code == e.status
        handler == IF status_code \in DOMAIN error_handlers
                   THEN error_handlers[status_code]
                   ELSE default_handler
        logged == IF status_code = 500 /\ Contains(e.text, "Out of host capacity")
                  THEN handler.special_case[2]
                  ELSE handler.msg
    IN  [retry |-> handler.retry,
         logged |-> logged,
         notifications |-> IF ~handler.retry /\ "title" \in DOMAIN handler
                           THEN Append(notes, handler.title)
                           ELSE notes]

_handle_fatal_error(e, notes) == Append(notes, "final failure")

\* except clauses that go on to the next iteration after a retryable
\* ServiceError without sleeping
main_except_no_sleep(e, current_interval, notes) ==
    IF e.type = "ServiceError"
    THEN LET h == handle_service_error(e, current_interval, notes)
         IN  [pc |-> IF h.retry THEN "loop_top" ELSE "FATAL_STOPPED", sleep |-> 0,
              logged |-> h.logged, notifications |-> h.notifications]
    ELSE IF _is_transient_error(e)
    THEN [pc |-> "sleep_transient", sleep |-> current_interval,
          logged |-> "network error, retry", notifications |-> notes]
    ELSE [pc |-> "FATAL_STOPPED", sleep |-> 0, logged |-> "unknown exception, stop",
          notifications |-> _handle_fatal_error(e, notes)]

\* what requests.post does: it raises, or returns a response with a status
\* code and a body that is JSON with an errcode, or not JSON
Responses ==
    {[raises |-> TRUE, status_code |-> 0, json |-> FALSE, errcode |-> 0]}
    \cup {[raises |-> FALSE, status_code |-> s, json |-> j, errcode |-> c] :
             s \in {200, 500}, j \in BOOLEAN, c \in {0, 310000}}

\* [returned, raised, e]; response.json() raises on a body that is not JSON
_handle_response(response) ==
    IF response.status_code = 200
    THEN IF ~response.json
         THEN [returned |-> FALSE, raised |-> TRUE, e |-> Exception(<<"Expecting value">>)]
         ELSE [returned |-> response.errcode = 0, raised |-> FALSE, e |-> NoException]
    ELSE [returned |-> FALSE, raised |-> FALSE, e |-> NoException]

\* a send_notification without its try/except
send_notification_uncaught(notifier, response) ==
    IF notifier.webhook = "" \/ notifier.secret = ""
    THEN [response |-> response, returned |-> FALSE, raised |-> FALSE, e |-> NoException]
    ELSE IF response.raises
    THEN [response |-> response, returned |-> FALSE, raised |-> TRUE,
          e |-> Exception(<<"Connection aborted">>)]
    ELSE LET h == _handle_response(response)
         IN  [response |-> response, returned |-> h.returned, raised |-> h.raised,
              e |-> h.e]

\* [response, returned, raised, e]: the response of the post, the return
\* value, and whether an exception e leaves send_notification
send_notification(notifier, response) ==
    IF notifier.webhook = "" \/ notifier.secret = ""
    THEN [response |-> response, returned |-> FALSE, raised |-> FALSE, e |-> NoException]
    ELSE IF response.raises
    THEN [response |-> response, returned |-> FALSE, raised |-> FALSE, e |-> NoException]
    ELSE LET h == _handle_response(response)
         IN  IF h.raised
             THEN [response |-> response, returned |-> FALSE, raised |-> FALSE,
                   e |-> NoException]
             ELSE [response |-> response, returned |-> h.returned, raised |-> FALSE,
                   e |-> NoException]

\* the calls of send_notification of an except clause that took the
\* notifications from notes to notes_after
Sends(notes, notes_after, notifier, response) ==
    IF Len(notes_after) > Len(notes)
    THEN <<send_notification(notifier, response)>>
    ELSE <<>>

\* an exception out of send_notification inside an except clause leaves main
AfterSends(sends, next) ==
    IF sends # <<>> /\ sends[Len(sends)].raised THEN "CRASHED" ELSE next

\* the except clauses of the loop body for an exception e of the attempt:
\* [pc, sleep, logged, notifications]; sleep is the argument of time.sleep
main_except(e, current_interval, notes) ==
    IF e.type = "ServiceError"
    THEN LET h == handle_service_error(e, current_interval, notes)
         IN  IF ~h.retry
             THEN [pc |-> "FATAL_STOPPED", sleep |-> 0, logged |-> h.logged,
                   notifications |-> h.notifications]
             ELSE [pc |-> "sleep_service_error", sleep |-> current_interval,
                   logged |-> h.logged, notifications |-> h.notifications]
    ELSE IF _is_transient_error(e)
    THEN [pc |-> "sleep_transient", sleep |-> current_interval,
          logged |-> "network error, retry", notifications |-> notes]
    ELSE [pc |-> "FATAL_STOPPED", sleep |-> 0, logged |-> "unknown exception, stop",
          notifications |-> _handle_fatal_error(e, notes)]

\* a _handle_transient_error that swallows the KeyboardInterrupt of its sleep:
\* main() goes on with continue
KeyboardInterrupt_swallowed(at) ==
    CASE at = "launch" -> "INTERRUPTED"
      [] at = "wait_running" -> "INTERRUPTED"
      [] at = "sleep_service_error" -> "INTERRUPTED"
      [] at = "sleep_transient" -> "loop_top"

\* where a KeyboardInterrupt delivered at a suspension point takes main():
\* out of the loop by break, or, from the sleep of _handle_transient_error,
\* re-raised out of main()
KeyboardInterrupt(at) ==
    CASE at = "launch" -> "INTERRUPTED"
      [] at = "wait_running" -> "INTERRUPTED"
      [] at = "sleep_service_error" -> "INTERRUPTED"
      [] at = "sleep_transient" -> "INTERRUPTED"

\* OCIInstanceManager._wait_for_instance_running
max_wait_time == 300

check_interval == 10

\* the lifecycle states an instance may move to between two polls; a
\* terminating instance does not come back
LifecycleNext(state) ==
    CASE state = "PROVISIONING" -> {"PROVISIONING", "RUNNING", "TERMINATING"}
      [] state = "RUNNING" -> {"RUNNING", "TERMINATING"}
      [] state = "TERMINATING" -> {"TERMINATING", "TERMINATED"}
      [] state = "TERMINATED" -> {"TERMINATED"}

\* a poll that takes a terminated instance for a started one
_wait_for_instance_running_poll_any(lifecycle_state) ==
    IF lifecycle_state \in {"RUNNING", "TERMINATED"} THEN "return" ELSE "sleep"

\* one pass of the polling loop on the polled state ("" when get_instance
\* raised): return, or sleep(check_interval).  The exception raised for
\* TERMINATED / TERMINATING is caught by the except clause of the same try.
_wait_for_instance_running_poll(lifecycle_state) ==
    IF lifecycle_state = "RUNNING" THEN "return"
    ELSE IF lifecycle_state \in {"TERMINATED", "TERMINATING"} THEN "sleep"
    ELSE "sleep"

\* the exceptions raised inside _assign_ipv6_to_instance
NoVnicAttachment == Exception(<<"no VNIC attachment found">>)

VnicListFailed == Exception(<<"list_vnic_attachments failed">>)

\* an assignment that lets its exceptions through
_assign_ipv6_to_instance_raises(vnic_attachments, list_ok, created) ==
    IF ~list_ok THEN [ipv6 |-> "failed", raised |-> TRUE, e |-> VnicListFailed]
    ELSE IF vnic_attachments = <<>>
    THEN [ipv6 |-> "failed", raised |-> TRUE, e |-> NoVnicAttachment]
    ELSE IF created = <<>> THEN [ipv6 |-> "unassigned", raised |-> FALSE, e |-> NoException]
    ELSE [ipv6 |-> "assigned", raised |-> FALSE, e |-> NoException]

\* OCIInstanceManager._assign_ipv6_to_instance: [ipv6, raised, e].
\* vnic_attachments is the data of list_vnic_attachments, list_ok whether that
\* call returned, created the data of 'oci network ipv6 create' as _run_cli
\* gives it (empty after a failure).  Whatever is raised inside is caught and
\* logged.
_assign_ipv6_to_instance(vnic_attachments, list_ok, created) ==
    IF ~list_ok THEN [ipv6 |-> "failed", raised |-> FALSE, e |-> NoException]
    ELSE IF vnic_attachments = <<>>
    THEN [ipv6 |-> "failed", raised |-> FALSE, e |-> NoException]
    ELSE IF created = <<>> THEN [ipv6 |-> "unassigned", raised |-> FALSE, e |-> NoException]
    ELSE [ipv6 |-> "assigned", raised |-> FALSE, e |-> NoException]

\* get_instance_config: the shape of the architecture
get_instance_config(arch) ==
    IF arch = "arm" THEN "VM.Standard.A1.Flex" ELSE "VM.Standard.E2.1.Micro"

\* a request without the NSG
LaunchInstanceDetails_no_nsg(shape, image_id, availability_domain, subnet_id, nsg_id) ==
    [availability_domain |-> availability_domain, image_id |-> image_id,
     shape |-> shape, subnet_id |-> subnet_id, nsg_ids |-> <<>>]

\* create_instance: the request it builds; nsg_ids = [nsg_id] if nsg_id else None
LaunchInstanceDetails(shape, image_id, availability_domain, subnet_id, nsg_id) ==
    [availability_domain |-> availability_domain, image_id |-> image_id,
     shape |-> shape, subnet_id |-> subnet_id,
     nsg_ids |-> IF nsg_id # "" THEN <<nsg_id>> ELSE <<>>]

NoDetails == LaunchInstanceDetails("", "", "", "", "")

\* the loop's bookkeeping before the first iteration
NoLoop ==
    [current_interval |-> 0, attempts |-> 0, elapsed |-> 0, seen |-> {},
     e |-> NoException, logged |-> "", sleep |-> 0, ipv6 |-> "",
     details |-> NoDetails, sent |-> <<>>]

(***************************************************************************)
(* The initial states: what api.conf may hold and what the compartment     *)
(* may contain when the program starts.                                    *)
(***************************************************************************)
\* the CLI commands a handler may find failing
NetOps ==
    {"vcn_get", "subnet_get", "igw_get", "rt_get",
     "vcn_list", "subnet_list", "igw_list", "rt_list", "ad_list",
     "vcn_create", "igw_create", "rt_update", "subnet_create",
     "nsg_create", "nsg_rules_add"}

\* during one handler no call fails, or the calls of one command do
FailChoices(ops) == {{}} \cup {{op} : op \in ops}

ProvBits == {"v1", "v2", "s1", "s2", "g1", "r1", "n1"}

MkProv(b) ==
    [vcn |-> (IF b["v1"] THEN <<Vcn("v1")>> ELSE <<>>) \o
             (IF b["v2"] THEN <<Vcn("v2")>> ELSE <<>>),
     subnet |-> (IF b["s1"] THEN <<Res("s1", "v1")>> ELSE <<>>) \o
                (IF b["s2"] THEN <<Res("s2", "v2")>> ELSE <<>>),
     igw |-> IF b["g1"] THEN <<Res("g1", "v1")>> ELSE <<>>,
     rt |-> IF b["r1"] THEN <<Res("r1", "v1")>> ELSE <<>>,
     nsg |-> IF b["n1"] THEN <<Res("n1", "v1")>> ELSE <<>>,
     sl |-> IF b["v1"]
            THEN <<DefaultSecurityList("v1"),
                   SecurityList("sl2", "v1", <<>>, <<"0.0.0.0/0", "::/0">>)>>
            ELSE <<>>,
     ad |-> <<"ad1">>]

\* a resource lies in a VCN that exists; v2 exists only next to v1
InitProvs ==
    {MkProv(b) : b \in {b \in [ProvBits -> BOOLEAN] :
                            /\ b["v2"] => b["v1"]
                            /\ b["s1"] => b["v1"]
                            /\ b["s2"] => b["v2"]
                            /\ b["g1"] => b["v1"]
                            /\ b["r1"] => b["v1"]
                            /\ b["n1"] => b["v1"]}}

\* a compartment whose first VCN lists two subnets, gateways and route tables
ProvTwoOfEach ==
    [vcn |-> <<Vcn("v1"), Vcn("v2")>>,
     subnet |-> <<Res("s1", "v1"), Res("s2", "v2"), Res("s9", "v1")>>,
     igw |-> <<Res("g1", "v1"), Res("g9", "v1")>>,
     rt |-> <<Res("r1", "v1"), Res("r9", "v1")>>,
     nsg |-> <<>>,
     sl |-> <<DefaultSecurityList("v1"), DefaultSecurityList("v2")>>,
     ad |-> <<"ad1", "ad2">>]

\* api.conf: an identifier is missing or was written by an earlier run; v0 is
\* a VCN that has been deleted since
InitStores ==
    {NonEmpty([vcn_id |-> v,
               vcn_name |-> IF v = "" THEN "" ELSE "name-" \o v,
               subnet_id |-> s,
               internet_gateway_id |-> g,
               route_table_id |-> r,
               nsg_id |-> n,
               availability_domain |-> a]) :
        v \in {"", "v0", "v1", "v2"}, s \in {"", "s1", "s2"}, g \in {"", "g1"},
        r \in {"", "r1"}, n \in {"", "n1"}, a \in {"", "ad1"}}

(***************************************************************************)
(* SpecNet: ensure_network called again and again on the same store and    *)
(* provider, nothing else touching either.                                 *)
(***************************************************************************)
\* the keys of api.conf next to the topology: the static configuration, and
\* what an earlier run has left (an image, the security-list marker)
OtherConfig ==
    [tenancy |-> "t1", arm_image |-> "img1", arm_name |-> "22.04",
     security_list_configured |-> "v1"]

InitNet ==
    /\ store \in {Update(s, OtherConfig) : s \in InitStores}
    /\ prov \in {p \in InitProvs : p.nsg = <<>>} \cup {ProvTwoOfEach}
    /\ pc = "net"
    /\ net_ids = NoConfig
    /\ raised = FALSE
    /\ calls = <<>>
    /\ ncalls = 0
    /\ locals = NoLocals
    /\ user_config = [arch |-> "arm", interval |-> IntervalInt(MinTime)]
    /\ loop = NoLoop
    /\ instance = ""
    /\ notifications = <<>>
    /\ interrupted = FALSE

EnsureNetworkCall ==
    /\ pc = "net"
    /\ ncalls < MaxCalls
    /\ CanCreate(prov)
    /\ \E F \in FailChoices(NetOps) :
          \E r \in {ensure_network(store, prov, F)} :
              /\ store' = r.store
              /\ prov' = r.prov
              /\ calls' = r.calls
              /\ net_ids' = r.ret
              /\ raised' = r.raised
    /\ ncalls' = ncalls + 1
    /\ UNCHANGED <<pc, locals, loopVars>>

NextNet == EnsureNetworkCall

SpecNet == InitNet /\ [][NextNet]_vars

(***************************************************************************)
(* main() from the ensure_network call to the first launch request.        *)
(***************************************************************************)
NsgOps ==
    {"nsg_list", "nsg_create", "nsg_rules_add",
     "sl_list", "sl_get", "sl_clear_ingress", "sl_add_egress"}

SetupOps == {"ad_list", "subnet_list_all"}

InitMain ==
    /\ store \in InitStores
    /\ prov \in InitProvs
    /\ pc = "image"
    /\ net_ids = NoConfig
    /\ raised = FALSE
    /\ calls = <<>>
    /\ ncalls = 0
    /\ locals = NoLocals
    /\ user_config = [arch |-> "arm", interval |-> IntervalInt(MinTime)]
    /\ loop = NoLoop
    /\ instance = ""
    /\ notifications = <<>>
    /\ interrupted = FALSE

\* what the provider lists as images: its catalogue, or nothing for Ubuntu
ImageCatalogues ==
    {<<Image("img-old", TRUE, TRUE, "22.04 Minimal aarch64", 1),
       Image("img-arm", TRUE, TRUE, "22.04 Minimal aarch64", 2),
       Image("img-amd", TRUE, FALSE, "22.04 Minimal", 2),
       Image("img-24", FALSE, TRUE, "24.04 aarch64", 3)>>,
     <<Image("img-24", FALSE, TRUE, "24.04 aarch64", 3)>>}

\* image_id = instance_manager.get_image_id(user_config.arch); sys.exit(1)
\* when no image is found
MainGetImage ==
    /\ pc = "image"
    /\ \E F \in FailChoices({"image_list"}), listed \in ImageCatalogues :
          \E r \in {get_image_id(store, user_config.arch, F, listed)} :
              /\ store' = r.store
              /\ calls' = r.calls
              /\ locals' = [locals EXCEPT !.image_id = r.image_id]
              /\ pc' = IF r.exited THEN "EXITED" ELSE "main"
    /\ UNCHANGED <<prov, net_ids, raised, ncalls, loopVars>>

\* net_ids = network_manager.ensure_network(logger); an exception ends main()
MainEnsureNetwork ==
    /\ pc = "main"
    /\ CanCreate(prov)
    /\ \E F \in FailChoices(NetOps) :
          \E r \in {ensure_network(store, prov, F)} :
              /\ store' = r.store
              /\ prov' = r.prov
              /\ calls' = r.calls
              /\ net_ids' = r.ret
              /\ raised' = r.raised
              /\ pc' = IF r.raised THEN "CRASHED" ELSE "select_nsg"
    /\ ncalls' = ncalls + 1
    /\ UNCHANGED <<locals, loopVars>>

\* vcn_id from net_ids or the store, the stored nsg_id deleted, select_nsg
MainSelectNsg ==
    /\ pc = "select_nsg"
    /\ CanCreate(prov)
    /\ \E F \in FailChoices(NsgOps), choice \in 0..Len(prov.nsg),
          configure \in BOOLEAN :
          LET vcn_id == IF Get(net_ids, "vcn_id") # ""
                        THEN net_ids["vcn_id"]
                        ELSE Get(store, "vcn_id")
              conf == Restrict(store, DOMAIN store \ {"nsg_id"})
          IN  /\ choice <= Len(get_existing_nsgs(vcn_id, prov, F))
              /\ \E r \in {select_nsg(conf, vcn_id, prov, calls, F, choice,
                                            configure)} :
                    /\ store' = r.store
                    /\ prov' = r.prov
                    /\ calls' = r.calls
                    /\ locals' = [locals EXCEPT !.vcn_id = vcn_id, !.nsg_id = r.nsg_id]
                    /\ pc' = IF r.raised THEN "CRASHED" ELSE "setup"
    /\ UNCHANGED <<net_ids, raised, ncalls, loopVars>>

\* availability_domain and subnet_id from net_ids, the store or the CLI, then
\* read_ssh_key; key_ok is whether the key file can be read
MainAcquisitionSetup ==
    /\ pc = "setup"
    /\ \E F \in FailChoices(SetupOps), key_ok \in BOOLEAN :
          LET a == get_config_or_cli(store, "availability_domain", "ad_list", F,
                                     prov.ad)
              from_net == Get(net_ids, "subnet_id")
              b == IF from_net # ""
                   THEN [store |-> a.store, value |-> from_net, calls |-> <<>>,
                         exited |-> FALSE]
                   ELSE get_config_or_cli(a.store, "subnet_id", "subnet_list_all", F,
                                          [i \in 1..Len(prov.subnet) |->
                                              prov.subnet[i].id])
          IN  IF a.exited
              THEN /\ store' = a.store
                   /\ calls' = calls \o a.calls
                   /\ pc' = "EXITED"
                   /\ UNCHANGED locals
              ELSE /\ store' = b.store
                   /\ calls' = calls \o a.calls \o b.calls
                   /\ locals' = [locals EXCEPT !.availability_domain = a.value,
                                               !.subnet_id = b.value]
                   /\ pc' = IF b.exited \/ ~key_ok THEN "EXITED" ELSE "loop_top"
    /\ UNCHANGED <<prov, net_ids, raised, ncalls, loopVars>>

(***************************************************************************)
(* The retry loop of main().  pc is the suspension point main() is at:     *)
(* "loop_top", "launch" (launch_instance in flight), "wait_running" (in    *)
(* _wait_for_instance_running), "sleep_service_error" and                  *)
(* "sleep_transient" (the two time.sleep(current_interval)), or how main() *)
(* ended: "SUCCEEDED", "FATAL_STOPPED", "INTERRUPTED".                     *)
(***************************************************************************)
MaxAttempts == 3

MaxInterval == 12

UserIntervals == {IntervalInt(MinTime), IntervalInt(MaxInterval), IntervalStr(MinTime, MaxInterval)}

StatusCodes == {400, 401, 404, 429, 500, 503}

\* what launch_instance may raise; the last text is raised by create_instance
\* itself for an empty response
LaunchExceptions ==
    {ServiceError(s, t) : s \in StatusCodes,
                          t \in {<<"Out of host capacity">>, <<"InternalError">>}}
    \cup {Exception(<<"HTTPSConnectionPool: ", m, ".">>) : m \in TRANSIENT_ERROR_MARKERS}
    \cup {Exception(<<"Read timed out">>),
          Exception(<<"certificate verify failed">>),
          Exception(<<"disk full">>),
          Exception(<<"launch response is empty">>)}

WaitTimeout == Exception(<<"instance start timed out">>)

LoopStore ==
    [vcn_id |-> "v1", vcn_name |-> "name-v1", subnet_id |-> "s1",
     internet_gateway_id |-> "g1", route_table_id |-> "r1", nsg_id |-> "n1",
     availability_domain |-> "ad1", arm_image |-> "img-arm",
     arm_name |-> "22.04 Minimal aarch64"]

InitLoop ==
    /\ store = LoopStore
    /\ prov = MkProv([b \in ProvBits |-> b \in {"v1", "s1", "g1", "r1", "n1"}])
    /\ pc = "loop_top"
    /\ net_ids = _get_network_config(LoopStore)
    /\ raised = FALSE
    /\ calls = <<>>
    /\ ncalls = 1
    /\ locals \in {[l EXCEPT !.image_id = "img-arm", !.vcn_id = "v1", !.nsg_id = "n1",
                               !.availability_domain = "ad1", !.subnet_id = "s1",
                               !.notifier = n] : l \in {NoLocals}, n \in Notifiers}
    /\ user_config \in {[arch |-> "arm", interval |-> i] : i \in UserIntervals}
    /\ loop = NoLoop
    /\ instance = ""
    /\ notifications = <<>>
    /\ interrupted = FALSE

\* the interval of this iteration drawn, create_instance called: the launch
\* request goes out
LoopTop ==
    /\ pc = "loop_top"
    /\ loop.attempts < MaxAttempts
    /\ \E current_interval \in IntervalDraws(user_config.interval) :
          loop' = [NoLoop EXCEPT !.current_interval = current_interval,
                                 !.attempts = loop.attempts + 1,
                                 !.details = LaunchInstanceDetails(
                                     get_instance_config(user_config.arch),
                                     locals.image_id, locals.availability_domain,
                                     locals.subnet_id, locals.nsg_id)]
    /\ pc' = "launch"
    /\ UNCHANGED <<netVars, locals, user_config, instance, notifications, interrupted>>

\* launch_instance returns an instance
LaunchAccepted ==
    /\ pc = "launch"
    /\ instance' = "PROVISIONING"
    /\ pc' = "wait_running"
    /\ UNCHANGED <<netVars, locals, user_config, loop, notifications, interrupted>>

\* launch_instance raises
LaunchRaises ==
    /\ pc = "launch"
    /\ \E e \in LaunchExceptions, response \in Responses :
          \E r \in {main_except(e, loop.current_interval, notifications)} :
              LET sends == Sends(notifications, r.notifications, locals.notifier,
                                 response)
              IN  /\ pc' = AfterSends(sends, r.pc)
                  /\ loop' = [loop EXCEPT !.e = e, !.logged = r.logged,
                                          !.sleep = r.sleep, !.sent = sends]
                  /\ notifications' = r.notifications
    /\ UNCHANGED <<netVars, locals, user_config, instance, interrupted>>

\* one pass of the polling loop: get_instance, then return (followed by
\* _assign_ipv6_to_instance, the success notification and break; an exception
\* out of create_instance goes to the except clauses of main) or
\* sleep(check_interval), after which the time may be up.  A pass is counted
\* as check_interval seconds.
PollInstance ==
    /\ pc = "wait_running"
    /\ loop.elapsed < max_wait_time
    /\ \E state \in LifecycleNext(instance), get_ok \in BOOLEAN :
          LET lifecycle_state == IF get_ok THEN state ELSE ""
              seen == loop.seen \cup {lifecycle_state}
              elapsed == loop.elapsed + check_interval
          IN  /\ instance' = state
              /\ IF _wait_for_instance_running_poll(lifecycle_state) = "return"
                 THEN \E vnic_attachments \in {<<>>, <<"vnic1">>}, list_ok \in BOOLEAN,
                         created \in {<<>>, <<"ipv6-1">>}, response \in Responses :
                         LET a == _assign_ipv6_to_instance(vnic_attachments, list_ok,
                                                           created)
                             ra == main_except(a.e, loop.current_interval,
                                               notifications)
                             sa == Sends(notifications, ra.notifications,
                                         locals.notifier, response)
                             success == send_notification(locals.notifier, response)
                             notified == Append(notifications, "success")
                             rs == main_except(success.e, loop.current_interval,
                                               notified)
                             ss == Sends(notified, rs.notifications, locals.notifier,
                                         response)
                         IN  IF a.raised
                             THEN /\ loop' = [loop EXCEPT !.seen = seen,
                                                 !.ipv6 = a.ipv6, !.e = a.e,
                                                 !.logged = ra.logged,
                                                 !.sleep = ra.sleep, !.sent = sa]
                                  /\ notifications' = ra.notifications
                                  /\ pc' = AfterSends(sa, ra.pc)
                             ELSE IF success.raised
                             THEN /\ loop' = [loop EXCEPT !.seen = seen,
                                                 !.ipv6 = a.ipv6, !.e = success.e,
                                                 !.logged = rs.logged,
                                                 !.sleep = rs.sleep,
                                                 !.sent = <<success>> \o ss]
                                  /\ notifications' = rs.notifications
                                  /\ pc' = AfterSends(ss, rs.pc)
                             ELSE /\ loop' = [loop EXCEPT !.seen = seen,
                                                 !.logged = "created",
                                                 !.ipv6 = a.ipv6,
                                                 !.sent = <<success>>]
                                  /\ notifications' = notified
                                  /\ pc' = "SUCCEEDED"
                 ELSE IF elapsed < max_wait_time
                 THEN /\ loop' = [loop EXCEPT !.seen = seen, !.elapsed = elapsed]
                      /\ UNCHANGED <<notifications, pc>>
                 ELSE \E response \in Responses :
                         LET r == main_except(WaitTimeout, loop.current_interval,
                                              notifications)
                             sr == Sends(notifications, r.notifications,
                                         locals.notifier, response)
                         IN  /\ loop' = [loop EXCEPT !.seen = seen,
                                            !.elapsed = elapsed, !.e = WaitTimeout,
                                            !.logged = r.logged, !.sleep = r.sleep,
                                            !.sent = sr]
                             /\ notifications' = r.notifications
                             /\ pc' = AfterSends(sr, r.pc)
    /\ UNCHANGED <<netVars, locals, user_config, interrupted>>

\* time.sleep(current_interval) returns: the next iteration
SleepDone ==
    /\ pc \in {"sleep_service_error", "sleep_transient"}
    /\ pc' = "loop_top"
    /\ UNCHANGED <<netVars, locals, loopVars>>

\* KeyboardInterrupt while main() is blocked
Interrupt ==
    /\ pc \in {"launch", "wait_running", "sleep_service_error", "sleep_transient"}
    /\ pc' = KeyboardInterrupt(pc)
    /\ interrupted' = TRUE
    /\ UNCHANGED <<netVars, locals, user_config, loop, instance, notifications>>

NextMain ==
    MainGetImage \/ MainEnsureNetwork \/ MainSelectNsg \/ MainAcquisitionSetup \/ LoopTop

SpecMain == InitMain /\ [][NextMain]_vars

NextLoop ==
    LoopTop \/ LaunchAccepted \/ LaunchRaises \/ PollInstance \/ SleepDone \/ Interrupt

SpecLoop == InitLoop /\ [][NextLoop]_vars

(***************************************************************************)
(* SpecLive: the retry loop against a provider that answers every launch   *)
(* request, with a retryable failure or with an instance that a poll of    *)
(* the running-wait finds RUNNING, and without KeyboardInterrupt.  Each    *)
(* call of the loop body blocks until the provider answers and each sleep  *)
(* returns, hence the weak fairness of the steps.                          *)
(***************************************************************************)
\* what handle_service_error and _is_transient_error take for retryable
Retryable(e) ==
    \/ e.type = "ServiceError" /\ e.status \in {500, 429}
    \/ e.type = "Exception" /\ _is_transient_error(e)

\* launch_instance raises a retryable failure; the provider has capacity, at
\* the latest, for request number MaxAttempts
LaunchRefused ==
    /\ loop.attempts < MaxAttempts
    /\ LaunchRaises
    /\ Retryable(loop'.e)

\* one pass of the polling loop on an instance that starts: it is found
\* PROVISIONING or RUNNING, or get_instance raises, and the last pass before
\* the time is up finds it RUNNING
PollStarting ==
    /\ PollInstance
    /\ instance' \in {"PROVISIONING", "RUNNING"}
    /\ pc' \in {"wait_running", "SUCCEEDED"}

NextLive == LoopTop \/ LaunchAccepted \/ LaunchRefused \/ PollStarting \/ SleepDone

SpecLive == InitLoop /\ [][NextLive]_vars /\ WF_vars(NextLive)

(***************************************************************************)
(* SpecSec: configure_security_list_rules called again and again, for one  *)
(* of the two VCNs of the compartment, nothing else touching the store or  *)
(* the security lists.  pc = "sec"; locals.vcn_id is the VCN of the last   *)
(* call and calls its call log.                                            *)
(***************************************************************************)
MaxConfigures == 2

SlOps == {"sl_list", "sl_get", "sl_clear_ingress", "sl_add_egress"}

IngressChoices == {<<>>, <<"tcp22">>}

EgressChoices ==
    {<<>>, <<"0.0.0.0/0">>, <<"10.0.0.0/8", "::/0">>, <<"0.0.0.0/0", "::/0">>}

\* the security lists of v1: none, one, or two
SecListsOfV1 ==
    {<<>>}
    \cup {<<SecurityList("sl1", "v1", i, e)>> : i \in IngressChoices, e \in EgressChoices}
    \cup {<<SecurityList("sl1", "v1", i, e), SecurityList("sl2", "v1", j, f)>> :
             i \in IngressChoices, e \in EgressChoices,
             j \in IngressChoices, f \in EgressChoices}

SecProv(lists) ==
    [vcn |-> <<Vcn("v1"), Vcn("v2")>>,
     subnet |-> <<>>, igw |-> <<>>, rt |-> <<>>, nsg |-> <<>>,
     sl |-> lists \o <<DefaultSecurityList("v2")>>,
     ad |-> <<"ad1">>]

\* the marker is missing, or names a VCN an earlier run configured
SecStores ==
    {[tenancy |-> "t1", vcn_id |-> "v1"],
     [tenancy |-> "t1", vcn_id |-> "v1", security_list_configured |-> "v1"],
     [tenancy |-> "t1", vcn_id |-> "v1", security_list_configured |-> "v0"]}

\* one call of configure_security_list_rules makes at most 1 + 4 calls per list
SlCallPositions == 1..(1 + 4 * 2)

\* no call fails, or the calls of one command do, or the call at one position
SecFailChoices ==
    {[F |-> {}, N |-> {}]}
    \cup {[F |-> {op}, N |-> {}] : op \in SlOps}
    \cup {[F |-> {}, N |-> {n}] : n \in SlCallPositions}

InitSec ==
    /\ store \in SecStores
    /\ prov \in {SecProv(l) : l \in SecListsOfV1}
    /\ pc = "sec"
    /\ net_ids = NoConfig
    /\ raised = FALSE
    /\ calls = <<>>
    /\ ncalls = 0
    /\ locals = NoLocals
    /\ user_config = [arch |-> "arm", interval |-> IntervalInt(MinTime)]
    /\ loop = NoLoop
    /\ instance = ""
    /\ notifications = <<>>
    /\ interrupted = FALSE

ConfigureCall ==
    /\ pc = "sec"
    /\ ncalls < MaxConfigures
    /\ \E vcn_id \in {"v1", "v2"}, fail \in SecFailChoices :
          \E r \in {configure_security_list_rules(store, vcn_id, prov, <<>>,
                                                  fail.F, fail.N)} :
              /\ store' = r.store
              /\ prov' = r.prov
              /\ calls' = r.calls
              /\ raised' = r.raised
              /\ locals' = [locals EXCEPT !.vcn_id = vcn_id]
    /\ ncalls' = ncalls + 1
    /\ UNCHANGED <<pc, net_ids, loopVars>>

NextSec == ConfigureCall

SpecSec == InitSec /\ [][NextSec]_vars

(***************************************************************************)
(* SpecInterval: the interval from the prompt of get_time_interval to the  *)
(* first draw of the retry loop.  pc is "prompt" (input() is waiting),     *)
(* "typed" (the stripped line is in time_input), then "loop_top".          *)
(***************************************************************************)
MaxInput == 5

InputChars == {"0", "1", "2", "9", "-", "+", "a"}

TimeInputs == UNION {[1..n -> InputChars] : n \in 0..MaxInput}

InitInterval ==
    /\ store = LoopStore
    /\ prov = MkProv([b \in ProvBits |-> b \in {"v1", "s1", "g1", "r1", "n1"}])
    /\ pc = "prompt"
    /\ net_ids = NoConfig
    /\ raised = FALSE
    /\ calls = <<>>
    /\ ncalls = 0
    /\ locals = NoLocals
    /\ user_config = [arch |-> "arm", interval |-> NoInterval]
    /\ loop = NoLoop
    /\ instance = ""
    /\ notifications = <<>>
    /\ interrupted = FALSE

\* time_input = input(...).strip()
ReadTimeInput ==
    /\ pc = "prompt"
    /\ \E time_input \in TimeInputs :
          locals' = [locals EXCEPT !.time_input = time_input]
    /\ pc' = "typed"
    /\ UNCHANGED <<netVars, loopVars>>

\* the rest of the pass: return the interval, or print an error and ask again
GetTimeInterval ==
    /\ pc = "typed"
    /\ \E r \in {get_time_interval(locals.time_input)} :
          IF r.accepted
          THEN /\ user_config' = [user_config EXCEPT !.interval = r.interval]
               /\ pc' = "loop_top"
               /\ UNCHANGED locals
          ELSE /\ locals' = [locals EXCEPT !.time_input = <<>>]
               /\ pc' = "prompt"
               /\ UNCHANGED user_config
    /\ UNCHANGED <<netVars, loop, instance, notifications, interrupted>>

NextInterval == ReadTimeInput \/ GetTimeInterval \/ LoopTop

SpecInterval == InitInterval /\ [][NextInterval]_vars

(***************************************************************************)
(* Reading the call log.                                                   *)
(***************************************************************************)
GetOps == {"vcn_get", "subnet_get", "igw_get", "rt_get"}
ListOps == {"vcn_list", "subnet_list", "igw_list", "rt_list", "ad_list"}
CreateOps == {"vcn_create", "igw_create", "subnet_create", "nsg_create"}

OpsOf(cs) == {cs[i].op : i \in 1..Len(cs)}

\* the result of the call of command op in the log, "" when it was not issued
ResOf(cs, op) ==
    IF op \in OpsOf(cs)
    THEN cs[CHOOSE i \in 1..Len(cs) : cs[i].op = op].res
    ELSE ""

NoError(cs) == \A i \in 1..Len(cs) : cs[i].res # "error"

CoreKeys == {"vcn_id", "subnet_id", "internet_gateway_id", "route_table_id"}

\* the provider's list that holds the resource a key of the store names
ListFor(p, k) ==
    CASE k = "vcn_id" -> p.vcn
      [] k = "subnet_id" -> p.subnet
      [] k = "internet_gateway_id" -> p.igw
      [] k = "route_table_id" -> p.rt

Live(s, p, k) == Get(s, k) \in Ids(ListFor(p, k))

\* a step that is one ensure_network call
IsCall == ncalls' = ncalls + 1

(***************************************************************************)
(* C1.  Idempotence of ensure_network: of two calls in succession, the     *)
(* provider untouched in between and no provider call failing, the second  *)
(* returns the topology the first returned (already its VCN, subnet,       *)
(* gateway and route table are compared here) and issues no create call.   *)
(***************************************************************************)
C1_Idempotent ==
    [][(/\ IsCall
        /\ ncalls >= 1
        /\ ~raised /\ ~raised'
        /\ NoError(calls) /\ NoError(calls'))
       => (/\ \A k \in CoreKeys : net_ids'[k] = net_ids[k]
           /\ OpsOf(calls') \cap CreateOps = {})]_vars

(***************************************************************************)
(* C2.  Validation short-circuit: with all four core identifiers in the    *)
(* store, each of them live and no get failing, ensure_network issues the  *)
(* four gets and nothing else, returns the persisted topology and leaves   *)
(* the store as it was.                                                    *)
(***************************************************************************)
C2_ValidationShortCircuit ==
    [][(/\ IsCall
        /\ \A k \in CoreKeys : Get(store, k) # "" /\ Live(store, prov, k)
        /\ NoError(calls'))
       => (/\ OpsOf(calls') = GetOps
           /\ ~raised'
           /\ net_ids' = [k \in NetConfigKeys |-> Get(store, k)]
           /\ store' = store
           /\ prov' = prov)]_vars

C2_Witness ==
    /\ ncalls >= 1
    /\ ~raised
    /\ calls = <<Call("vcn_get", "v1", "ok"), Call("subnet_get", "s1", "ok"),
                 Call("igw_get", "g1", "ok"), Call("rt_get", "r1", "ok")>>
    /\ \A k \in CoreKeys : net_ids[k] # ""

(***************************************************************************)
(* C3.  All-or-nothing validation: when an identifier of the store fails   *)
(* its get, the VCN list is queried, and when it lists a VCN all five      *)
(* lists are queried, nothing is created and every field returned is what  *)
(* discovery found for the first VCN ("" where the list was empty or       *)
(* failed), whatever the store held.                                       *)
(***************************************************************************)
ValidationFails(s, p, cs) ==
    \/ \E k \in CoreKeys : Get(s, k) # "" /\ ~Live(s, p, k)
    \/ \E i \in 1..Len(cs) : cs[i].op \in GetOps /\ cs[i].res = "error"

Discovered(p, cs, op, list) ==
    IF ResOf(cs, op) = "ok" THEN FirstId(InVcn(list, p.vcn[1].id)) ELSE ""

C3_AllOrNothing ==
    [][(IsCall /\ ValidationFails(store, prov, calls'))
       => (/\ "vcn_list" \in OpsOf(calls')
           /\ (prov.vcn # <<>> /\ ResOf(calls', "vcn_list") = "ok")
              => (/\ ListOps \subseteq OpsOf(calls')
                  /\ OpsOf(calls') \cap CreateOps = {}
                  /\ ~raised'
                  /\ net_ids' =
                       [vcn_id |-> prov.vcn[1].id,
                        vcn_name |-> prov.vcn[1].name,
                        subnet_id |-> Discovered(prov, calls', "subnet_list", prov.subnet),
                        internet_gateway_id |-> Discovered(prov, calls', "igw_list", prov.igw),
                        route_table_id |-> Discovered(prov, calls', "rt_list", prov.rt),
                        availability_domain |->
                            IF ResOf(calls', "ad_list") = "ok" THEN prov.ad[1] ELSE "",
                        nsg_id |-> ""]))]_vars

\* the store named a dead VCN and a live subnet of another VCN; the topology
\* returned is the first VCN's, its subnet field empty
C3_Witness ==
    /\ ncalls = 1
    /\ ~raised
    /\ calls[1] = Call("vcn_get", "v0", "notfound")
    /\ ListOps \subseteq OpsOf(calls)
    /\ NoError(calls)
    /\ net_ids["vcn_id"] = "v1"
    /\ net_ids["subnet_id"] = ""
    /\ Get(store, "subnet_id") = "s2"

(***************************************************************************)
(* Reading the retry loop.                                                 *)
(***************************************************************************)
\* the states of the acquisition engine main() is in at a position
EngineState(p) ==
    CASE p \in {"loop_top", "launch", "wait_running"} -> "ATTEMPTING"
      [] p \in {"sleep_service_error", "sleep_transient"} -> "RETRY_WAIT"
      [] OTHER -> p

Terminal == {"SUCCEEDED", "FATAL_STOPPED", "INTERRUPTED"}

\* a retryable provider error, a transient network failure
RetryableProviderError(e) == e.type = "ServiceError" /\ e.status \in {500, 429}

TransientFailure(e) ==
    /\ e.type = "Exception"
    /\ \E i \in 1..Len(e.text) : e.text[i] \in TRANSIENT_ERROR_MARKERS

\* a step in which the attempt of this iteration ends with exception e
Raises(e) == loop'.e = e /\ loop.e = NoException /\ e # NoException

\* the calls ensure_network made: those before the NSG list of select_nsg
NetCalls(cs) ==
    SelectSeq([i \in 1..Len(cs) |->
                  IF \E j \in 1..i : cs[j].op = "nsg_list" THEN Call("", "", "") ELSE cs[i]],
              LAMBDA c : c.op # "")

CreationOps == CreateOps \cup {"rt_update", "nsg_rules_add"}

(***************************************************************************)
(* C4.  No launch request against an incomplete topology: when main() has  *)
(* issued a launch request, no step of the creation pass of this run has   *)
(* failed, and the topology ensure_network returned has a VCN, a subnet, a *)
(* gateway and a route table.                                              *)
(***************************************************************************)
C4_CompleteTopology ==
    pc = "launch" =>
        /\ \A i \in 1..Len(NetCalls(calls)) :
              ~(NetCalls(calls)[i].op \in CreationOps /\ NetCalls(calls)[i].res = "error")
        /\ \A k \in CoreKeys : Get(net_ids, k) # ""

(***************************************************************************)
(* C5.  Classification of a ServiceError by its status code: 500 is        *)
(* retryable, logged as a capacity shortage when the message contains      *)
(* "Out of host capacity" and as a server error otherwise; 429 is          *)
(* retryable; 400 is fatal (account limit); every other status is fatal    *)
(* (unknown).  main() goes to the backoff sleep exactly for 500 and 429.   *)
(***************************************************************************)
C5_Classification ==
    [][\A e \in LaunchExceptions :
          (Raises(e) /\ e.type = "ServiceError")
          => (/\ (pc' = "sleep_service_error") <=> (e.status \in {500, 429})
              /\ (pc' = "FATAL_STOPPED") <=> (e.status \notin {500, 429})
              /\ loop'.logged =
                   CASE e.status = 500 /\ Contains(e.text, "Out of host capacity")
                          -> "out of host capacity, retry"
                     [] e.status = 500 /\ ~Contains(e.text, "Out of host capacity")
                          -> "internal server error, retry"
                     [] e.status = 429 -> "too many requests, retry"
                     [] e.status = 400 -> "account limit exceeded, stop"
                     [] OTHER -> "unknown error, stop")]_vars

\* a second attempt, after a retryable error, ends on a 404
C5_Witness ==
    /\ pc = "FATAL_STOPPED"
    /\ loop.attempts = 2
    /\ loop.e = ServiceError(404, <<"InternalError">>)
    /\ loop.logged = "unknown error, stop"

(***************************************************************************)
(* C6.  The loop is the state machine ATTEMPTING -> SUCCEEDED |            *)
(* RETRY_WAIT -> ATTEMPTING | FATAL_STOPPED | INTERRUPTED.  It starts in   *)
(* ATTEMPTING with no launch request made.  A retryable outcome leads to   *)
(* the backoff sleep, whose delay is the interval drawn for the iteration; *)
(* an iteration other than the first starts only from a sleep; a launch    *)
(* request goes out only from the top of an iteration; from a terminal     *)
(* state nothing moves.                                                    *)
(***************************************************************************)
C6_Transitions ==
    {<<"ATTEMPTING", "ATTEMPTING">>, <<"ATTEMPTING", "RETRY_WAIT">>,
     <<"ATTEMPTING", "SUCCEEDED">>, <<"ATTEMPTING", "FATAL_STOPPED">>,
     <<"ATTEMPTING", "INTERRUPTED">>,
     <<"RETRY_WAIT", "ATTEMPTING">>, <<"RETRY_WAIT", "INTERRUPTED">>}

C6_Step ==
    /\ pc \notin Terminal
    /\ <<EngineState(pc), EngineState(pc')>> \in C6_Transitions
    /\ \A e \in LaunchExceptions :
          (Raises(e) /\ (RetryableProviderError(e) \/ TransientFailure(e)))
          => EngineState(pc') = "RETRY_WAIT"
    /\ (EngineState(pc') = "RETRY_WAIT")
       => (/\ EngineState(pc) = "ATTEMPTING"
           /\ loop'.sleep = loop.current_interval
           /\ loop'.current_interval = loop.current_interval
           /\ loop'.sleep >= MinTime)
    /\ (pc' = "loop_top") => (EngineState(pc) = "RETRY_WAIT" /\ loop' = loop)
    /\ (loop'.attempts # loop.attempts)
       => (pc = "loop_top" /\ pc' = "launch" /\ loop'.attempts = loop.attempts + 1)
    /\ (pc = "loop_top" /\ loop.attempts > 0) => loop.sleep = loop.current_interval

C6_StateMachine ==
    /\ pc = "loop_top" /\ loop.attempts = 0
    /\ [][C6_Step]_vars

\* the third launch request, the second sleep of 11 s done
C6_Witness ==
    /\ pc = "loop_top"
    /\ loop.attempts = 2
    /\ loop.sleep = 11
    /\ loop.current_interval = 11
    /\ loop.e.status = 429

(***************************************************************************)
(* C7.  Success is declared only after a poll has seen the instance        *)
(* RUNNING: in SUCCEEDED, and whenever the success notification has been   *)
(* sent, a poll of this attempt returned RUNNING, no poll of it returned   *)
(* TERMINATING or TERMINATED, and the 300 s were not used up.              *)
(***************************************************************************)
C7_SuccessOnlyAfterRunning ==
    (pc = "SUCCEEDED" \/ \E i \in 1..Len(notifications) : notifications[i] = "success")
    => (/\ pc = "SUCCEEDED"
        /\ notifications = <<"success">>
        /\ "RUNNING" \in loop.seen
        /\ loop.seen \cap {"TERMINATING", "TERMINATED"} = {}
        /\ loop.elapsed < max_wait_time
        /\ instance = "RUNNING")

\* RUNNING seen by the last poll before the ceiling, an earlier poll having failed
C7_Witness ==
    /\ pc = "SUCCEEDED"
    /\ loop.elapsed = max_wait_time - check_interval
    /\ loop.seen = {"", "PROVISIONING", "RUNNING"}
    /\ notifications = <<"success">>

(***************************************************************************)
(* C8.  A wait that times out, or an instance seen TERMINATING or          *)
(* TERMINATED during the wait, fails the iteration only: main() does not   *)
(* stop in FATAL_STOPPED because of it.                                    *)
(***************************************************************************)
C8_WaitFailureNotFatal ==
    pc = "FATAL_STOPPED"
    => (loop.e # WaitTimeout /\ loop.seen \cap {"TERMINATING", "TERMINATED"} = {})

(***************************************************************************)
(* C9.  Notifications: none is sent for a retryable ServiceError or a      *)
(* transient failure; a fatal outcome sends one failure notification and   *)
(* no launch request follows it; a run sends at most one notification.     *)
(***************************************************************************)
C9_Step ==
    /\ Len(notifications') <= 1
    /\ \A e \in LaunchExceptions :
          (Raises(e) /\ (RetryableProviderError(e) \/ TransientFailure(e)))
          => notifications' = notifications
    /\ (EngineState(pc') = "RETRY_WAIT") => notifications' = notifications
    /\ (pc' = "FATAL_STOPPED" /\ pc # "FATAL_STOPPED")
       => notifications' = Append(notifications, "final failure")
    /\ (pc = "FATAL_STOPPED") => (loop'.attempts = loop.attempts /\ pc' = pc)

C9_NotificationDiscipline ==
    /\ notifications = <<>>
    /\ [][C9_Step]_vars

\* two retryable outcomes without a notification, then the fatal one
C9_Witness ==
    /\ pc = "FATAL_STOPPED"
    /\ loop.attempts = 3
    /\ loop.e.status = 400
    /\ notifications = <<"final failure">>

(***************************************************************************)
(* C10.  Cancellation: a KeyboardInterrupt delivered while main() is in    *)
(* the launch request, in the wait for RUNNING or in either backoff sleep  *)
(* ends the loop; no launch request and no notification follows it.        *)
(***************************************************************************)
C10_Step ==
    /\ (interrupted' /\ ~interrupted)
       => (/\ pc' = "INTERRUPTED"
           /\ notifications' = notifications
           /\ loop' = loop)
    /\ interrupted => (pc' = pc /\ loop' = loop /\ notifications' = notifications)

C10_Cancellation ==
    /\ [](pc \in {"launch", "wait_running", "sleep_service_error", "sleep_transient"}
          => ENABLED Interrupt)
    /\ [][C10_Step]_vars

\* interrupted in the sleep of _handle_transient_error
C10_Witness ==
    /\ pc = "INTERRUPTED"
    /\ interrupted
    /\ TransientFailure(loop.e)
    /\ loop.sleep = loop.current_interval
    /\ notifications = <<>>

(***************************************************************************)
(* C11.  Classification of an exception that is not a ServiceError: when   *)
(* its text contains one of the transient markers main() sleeps and sends  *)
(* no notification; otherwise main() sends one failure notification and    *)
(* stops.                                                                  *)
(***************************************************************************)
C11_TransientClassification ==
    [][\A e \in LaunchExceptions \cup {WaitTimeout} :
          (Raises(e) /\ e.type = "Exception")
          => IF TransientFailure(e)
             THEN /\ pc' = "sleep_transient"
                  /\ loop'.sleep = loop.current_interval
                  /\ notifications' = notifications
             ELSE /\ pc' = "FATAL_STOPPED"
                  /\ notifications' = Append(notifications, "final failure")]_vars

\* "Read timed out" inside a longer text: the sleep, no notification
C11_Witness ==
    /\ pc = "sleep_transient"
    /\ loop.e = Exception(<<"HTTPSConnectionPool: ", "Read timed out", ".">>)
    /\ loop.sleep = loop.current_interval
    /\ notifications = <<>>

(***************************************************************************)
(* C12.  Interval sampling: with the policy's bounds min <= max, the delay *)
(* drawn at the top of an iteration lies in min..max, and at the top of    *)
(* any iteration, whatever was drawn before and whichever attempt it is,   *)
(* each value of min..max can be drawn.                                    *)
(***************************************************************************)
\* the policy of the run: the int interval, or MinTime-MaxInterval, the one
\* str interval of UserIntervals
PolicyMin == IF user_config.interval.type = "int" THEN user_config.interval.parts[1] ELSE MinTime

PolicyMax ==
    IF user_config.interval.type = "int" THEN user_config.interval.parts[1] ELSE MaxInterval

C12_IntervalSampling ==
    /\ [][(loop'.attempts # loop.attempts)
          => (PolicyMin <= loop'.current_interval /\ loop'.current_interval <= PolicyMax)]_vars
    /\ [](PolicyMin <= PolicyMax)
    /\ []((ENABLED LoopTop)
          => \A d \in PolicyMin..PolicyMax :
                ENABLED (LoopTop /\ loop'.current_interval = d))

\* the second iteration has drawn the upper bound of a str interval
C12_Witness ==
    /\ pc = "sleep_service_error"
    /\ user_config.interval = IntervalStr(MinTime, MaxInterval)
    /\ loop.attempts = 2
    /\ loop.current_interval = MaxInterval

(***************************************************************************)
(* C13.  Every failing step of the creation pass aborts ensure_network: a  *)
(* call that had a create, the route-table update or the NSG rule          *)
(* attachment fail has ended in an exception and has returned no topology. *)
(***************************************************************************)
C13_CreationFailureAborts ==
    (\E i \in 1..Len(calls) : calls[i].op \in CreationOps /\ calls[i].res = "error")
    => (raised /\ net_ids = NoConfig)

(***************************************************************************)
(* C14.  The creation pass is reached only from a store without network    *)
(* identifiers and a discovery that found no VCN: a call that issues a     *)
(* create call started with none of the four identifiers in the store and  *)
(* had the VCN list fail or come back empty.                               *)
(***************************************************************************)
Creates(cs) == OpsOf(cs) \cap CreateOps # {}

NoIdentifier(s) == \A k \in CoreKeys : Get(s, k) = ""

NothingDiscovered(p, cs) ==
    \/ ResOf(cs, "vcn_list") = "error"
    \/ ResOf(cs, "vcn_list") = "ok" /\ p.vcn = <<>>

C14_OnlyFromEmptyStore ==
    [][(IsCall /\ Creates(calls'))
       => (NoIdentifier(store) /\ NothingDiscovered(prov, calls'))]_vars

(***************************************************************************)
(* C14, amended.  A call that issues a create call started with a store    *)
(* that did not validate (no identifier in it, or one of its identifiers   *)
(* failing its get), had the VCN list fail or come back empty, and writes  *)
(* back none of the identifiers the store held: after it the store holds   *)
(* the identifiers the call returned, and none when it raised.             *)
(***************************************************************************)
C14_OnlyAfterFailedValidation ==
    [][(IsCall /\ Creates(calls'))
       => (/\ NoIdentifier(store) \/ ValidationFails(store, prov, calls')
           /\ NothingDiscovered(prov, calls')
           /\ \A k \in CoreKeys : Get(store', k) = Get(net_ids', k))]_vars

\* the store named a deleted VCN, the compartment was empty: a topology created
C14_Witness ==
    /\ ncalls = 1
    /\ ~raised
    /\ calls[1] = Call("vcn_get", "v0", "notfound")
    /\ calls[2] = Call("vcn_list", "", "ok")
    /\ calls[3] = Call("vcn_create", "", "ok")
    /\ Get(store, "vcn_id") = "v3"

(***************************************************************************)
(* C15.  With none of the four identifiers in the store ensure_network     *)
(* goes straight to the creation pass: the first call it issues is the     *)
(* VCN create.                                                             *)
(***************************************************************************)
C15_StraightToCreation ==
    [][(IsCall /\ NoIdentifier(store))
       => (calls' # <<>> /\ calls'[1].op = "vcn_create")]_vars

(***************************************************************************)
(* C15, amended.  With none of the four identifiers in the store           *)
(* ensure_network issues no get for validation and starts with discovery:  *)
(* its first call is the VCN list; when that lists a VCN nothing is        *)
(* created, and when it fails or lists none the next call is the VCN       *)
(* create.                                                                 *)
(***************************************************************************)
C15_DiscoveryThenCreation ==
    [][(IsCall /\ NoIdentifier(store))
       => (/\ calls' # <<>> /\ calls'[1].op = "vcn_list"
           /\ IF NothingDiscovered(prov, calls')
              THEN Len(calls') >= 2 /\ calls'[2].op = "vcn_create"
              ELSE ~Creates(calls') /\ OpsOf(calls') \cap GetOps = {})]_vars

\* empty store, empty compartment: the list, then the whole creation pass
C15_Witness ==
    /\ ncalls = 1
    /\ ~raised
    /\ Len(calls) = 9
    /\ calls[1] = Call("vcn_list", "", "ok")
    /\ calls[2] = Call("vcn_create", "", "ok")
    /\ NoError(calls)

(***************************************************************************)
(* C16.  Discovery adoption: when discovery lists a VCN, ensure_network    *)
(* creates nothing and returns the first VCN with the first subnet, first  *)
(* gateway and first route table listed for it and the first availability  *)
(* domain, each "" where the list is empty (or failed), and nsg_id "".     *)
(***************************************************************************)
FirstOf(p, cs, op, list) ==
    IF ResOf(cs, op) = "ok" /\ InVcn(list, p.vcn[1].id) # <<>>
    THEN InVcn(list, p.vcn[1].id)[1].id
    ELSE ""

C16_DiscoveryAdoption ==
    [][(IsCall /\ ResOf(calls', "vcn_list") = "ok" /\ prov.vcn # <<>>)
       => (/\ ~Creates(calls')
           /\ ~raised'
           /\ prov' = prov
           /\ net_ids'["vcn_id"] = prov.vcn[1].id
           /\ net_ids'["subnet_id"] = FirstOf(prov, calls', "subnet_list", prov.subnet)
           /\ net_ids'["internet_gateway_id"] = FirstOf(prov, calls', "igw_list", prov.igw)
           /\ net_ids'["route_table_id"] = FirstOf(prov, calls', "rt_list", prov.rt)
           /\ net_ids'["availability_domain"] =
                 (IF ResOf(calls', "ad_list") = "ok" /\ prov.ad # <<>> THEN prov.ad[1] ELSE "")
           /\ net_ids'["nsg_id"] = "")]_vars

\* empty store, one VCN with one subnet, no gateway and no route table
C16_Witness ==
    /\ ncalls = 1
    /\ calls[1] = Call("vcn_list", "", "ok")
    /\ NoError(calls)
    /\ prov.vcn = <<Vcn("v1")>> /\ prov.subnet = <<Res("s1", "v1")>>
    /\ prov.igw = <<>> /\ prov.rt = <<>>
    /\ net_ids["vcn_id"] = "v1" /\ net_ids["subnet_id"] = "s1"
    /\ net_ids["internet_gateway_id"] = "" /\ net_ids["route_table_id"] = ""
    /\ net_ids["nsg_id"] = ""

(***************************************************************************)
(* C17.  Validation and discovery fail open: a get that fails counts as    *)
(* 'not found' (discovery follows), a VCN list that fails counts as empty  *)
(* (the creation pass follows), a failed list of discovery leaves its      *)
(* field "", and none of them makes ensure_network raise: a call that      *)
(* raises has entered the creation pass and had one of its calls fail or   *)
(* found the VCN without an IPv6 block.                                    *)
(***************************************************************************)
FailedIn(cs, ops) == \E i \in 1..Len(cs) : cs[i].op \in ops /\ cs[i].res = "error"

C17_FailOpen ==
    [][IsCall
       => (/\ FailedIn(calls', GetOps) => "vcn_list" \in OpsOf(calls')
           /\ ResOf(calls', "vcn_list") = "error" => "vcn_create" \in OpsOf(calls')
           /\ ~Creates(calls') => ~raised'
           /\ (~Creates(calls') /\ ResOf(calls', "subnet_list") = "error")
              => net_ids'["subnet_id"] = ""
           /\ (~Creates(calls') /\ ResOf(calls', "igw_list") = "error")
              => net_ids'["internet_gateway_id"] = ""
           /\ (~Creates(calls') /\ ResOf(calls', "rt_list") = "error")
              => net_ids'["route_table_id"] = ""
           /\ raised' => "vcn_create" \in OpsOf(calls'))]_vars

\* the get of a live VCN failed: discovery ran and adopted, nothing raised
C17_Witness ==
    /\ ncalls = 1
    /\ ~raised
    /\ calls[1] = Call("vcn_get", "v1", "error")
    /\ "vcn_list" \in OpsOf(calls)
    /\ ~Creates(calls)
    /\ net_ids["vcn_id"] = "v1"

\* C18: whatever the reconciler, select_nsg with the security-list
\* configurator, and the acquisition setup have done, no key of the persisted
\* store maps to the empty string.
C18_StoreInvariant == \A k \in DOMAIN store : store[k] # ""

\* the setup is through, the configurator has written its marker, and a field
\* the reconciler returned empty is a missing key of the store
C18_Witness ==
    /\ pc = "loop_top"
    /\ Get(store, "security_list_configured") = locals.vcn_id
    /\ "sl_list" \in OpsOf(calls)
    /\ Get(store, "nsg_id") = locals.nsg_id
    /\ Get(store, "availability_domain") = locals.availability_domain
    /\ \E k \in DOMAIN net_ids : net_ids[k] = "" /\ k \notin DOMAIN store

(***************************************************************************)
(* C19.  Frame of a topology write.  The write is the last thing a call of *)
(* ensure_network that returns does; before it the creation pass has       *)
(* cleared the keys of network_keys, the other two paths have left the     *)
(* store as the call found it.                                             *)
(***************************************************************************)
TopologyKeys == NetConfigKeys \cup {"availability_domain"}

\* the value of key k just before the write of a call that found store s and
\* logged the calls cs
BeforeWrite(s, cs, k) ==
    IF "vcn_create" \in OpsOf(cs) /\ k \in network_keys THEN "" ELSE Get(s, k)

\* C19: when ensure_network persists a topology, a key is written exactly
\* when its new value is non-empty; a key whose new value is empty and every
\* key outside the topology keep the value they had before the write.
C19_WriteFrame ==
    [][(IsCall /\ ~raised')
       => (/\ \A k \in DOMAIN net_ids' :
                 net_ids'[k] # "" => Get(store', k) = net_ids'[k]
           /\ \A k \in DOMAIN net_ids' :
                 net_ids'[k] = "" => Get(store', k) = BeforeWrite(store, calls', k)
           /\ \A k \in (DOMAIN store \cup DOMAIN store') \ TopologyKeys :
                 /\ k \in DOMAIN store /\ k \in DOMAIN store'
                 /\ store'[k] = store[k]
           /\ \A k \in DOMAIN store' : store'[k] # "")]_vars

\* a topology was persisted with an empty field whose key kept its old
\* value, next to the image and the marker of an earlier run
C19_Witness ==
    /\ ncalls >= 1
    /\ ~raised
    /\ Get(net_ids, "vcn_id") # ""
    /\ \E k \in DOMAIN net_ids : net_ids[k] = "" /\ Get(store, k) # ""
    /\ Get(store, "arm_image") = "img1"
    /\ Get(store, "security_list_configured") = "v1"

(***************************************************************************)
(* C20.  Immediate persistence in the creation pass.                       *)
(***************************************************************************)
\* C20: after a call of ensure_network whose creation pass created the VCN
\* and then aborted at a later step, the store holds the identifier of the
\* VCN that was created (the one the provider lists last).
C20_PersistedImmediately ==
    (/\ ncalls >= 1
     /\ raised
     /\ ResOf(calls, "vcn_create") = "ok")
    => Get(store, "vcn_id") = prov.vcn[Len(prov.vcn)].id

(***************************************************************************)
(* The security-list configurator (SpecSec).                               *)
(***************************************************************************)
\* a step that is one call of configure_security_list_rules
ConfigureStep == pc = "sec" /\ ncalls' = ncalls + 1

\* C21: a call for the VCN the stored marker names issues no provider call
\* and leaves the store and the security lists as they are.
C21_MarkerGuard ==
    [][(ConfigureStep /\ Get(store, "security_list_configured") = locals'.vcn_id)
       => (calls' = <<>> /\ store' = store /\ prov' = prov)]_vars

\* the second call was for v1, found the marker of v1 and did nothing
C21_Witness ==
    /\ pc = "sec"
    /\ ncalls = 2
    /\ locals.vcn_id = "v1"
    /\ Get(store, "security_list_configured") = "v1"
    /\ calls = <<>>

\* the permissive destinations the egress rules e lack, IPv4 first
MissingEgress(e) ==
    SelectSeq(<<"0.0.0.0/0", "::/0">>, LAMBDA d : \A i \in 1..Len(e) : e[i] # d)

Logged(cs, op, arg) == \E i \in 1..Len(cs) : cs[i].op = op /\ cs[i].arg = arg

C23_PerListIsolation ==
    [][(/\ ConfigureStep
        /\ Get(store, "security_list_configured") # locals'.vcn_id
        /\ ResOf(calls', "sl_list") = "ok")
       => (/\ ~raised'
           /\ \A i \in 1..Len(prov.sl) :
                 prov.sl[i].vcn = locals'.vcn_id
                    => Logged(calls', "sl_get", prov.sl[i].id))]_vars

\* the loop of the call has gone through the list id: the get of its egress
\* check was issued after the get of its ingress check
Completed(cs, id) ==
    Cardinality({i \in 1..Len(cs) : cs[i].op = "sl_get" /\ cs[i].arg = id}) >= 2

\* C24: a call that has completed at least one security list leaves the
\* marker equal to the VCN of the call; a call that found no security list, or
\* whose guard matched, leaves the store as it is, and the latter issues no
\* provider call.
C24_MarkerWritten ==
    [][ConfigureStep
       => (/\ (\E i \in 1..Len(prov.sl) : Completed(calls', prov.sl[i].id))
                 => Get(store', "security_list_configured") = locals'.vcn_id
           /\ (/\ ResOf(calls', "sl_list") = "ok"
               /\ \A i \in 1..Len(prov.sl) : prov.sl[i].vcn # locals'.vcn_id)
                 => store' = store
           /\ Get(store, "security_list_configured") = locals'.vcn_id
                 => (calls' = <<>> /\ store' = store))]_vars

(***************************************************************************)
(* The retry loop (SpecLoop), continued.                                   *)
(***************************************************************************)
\* C25: a poll that observes RUNNING ends the attempt SUCCEEDED, with the
\* success notification appended and no sleep scheduled, whether the IPv6
\* assignment that follows succeeded, found no VNIC attachment, or had its
\* call fail or return nothing.
C25_BestEffortEnrichment ==
    [][(pc = "wait_running" /\ "RUNNING" \in loop'.seen)
       => (/\ loop'.ipv6 \in {"assigned", "unassigned", "failed"}
           /\ pc' = "SUCCEEDED"
           /\ notifications' = Append(notifications, "success")
           /\ loop'.sleep = 0
           /\ loop'.e = NoException)]_vars

\* the instance is RUNNING, the assignment failed, the attempt succeeded
C25_Witness ==
    /\ pc = "SUCCEEDED"
    /\ instance = "RUNNING"
    /\ loop.ipv6 = "failed"
    /\ notifications # <<>>
    /\ notifications[Len(notifications)] = "success"

\* C26: no step of the retry loop writes the persisted store or changes what
\* was resolved before the loop, and the request of every attempt carries the
\* image, availability domain, subnet, NSG and shape resolved before the loop.
C26_LoopFrame ==
    /\ [][/\ store' = store
          /\ locals' = locals
          /\ user_config' = user_config]_vars
    /\ [](loop.attempts >= 1
          => /\ loop.details.image_id = locals.image_id
             /\ loop.details.availability_domain = locals.availability_domain
             /\ loop.details.subnet_id = locals.subnet_id
             /\ loop.details.nsg_ids = <<locals.nsg_id>>
             /\ loop.details.shape = "VM.Standard.A1.Flex"
             /\ store = LoopStore)

\* the third attempt, after a retried service error and a retried transient
\* failure or two of one kind, ended; the store is the one the loop started with
C26_Witness ==
    /\ loop.attempts = MaxAttempts
    /\ pc \in {"SUCCEEDED", "FATAL_STOPPED"}
    /\ loop.details.image_id = "img-arm"
    /\ loop.details.subnet_id = "s1"
    /\ store = LoopStore

(***************************************************************************)
(* C27.  The ingress rules of a created NSG.                               *)
(***************************************************************************)
\* the five rules: TCP port 22 from 10.0.0.0/24, from 0.0.0.0/0 and from ::/0,
\* ICMP echo (type 8) from 0.0.0.0/0, ICMPv6 echo (type 128, code 0) from ::/0
FixedIngressRules ==
    {Rule("6", "10.0.0.0/24", "22", ""),
     Rule("6", "0.0.0.0/0", "22", ""),
     Rule("1", "0.0.0.0/0", "", "8"),
     Rule("6", "::/0", "22", ""),
     Rule("58", "::/0", "", "128/0")}

\* C27: every NSG created by the program (by create_default_nsg or by
\* _create_nsg) whose rules were added carries exactly the five fixed rules.
C27_FixedNsgRules ==
    \A i \in 1..Len(prov.nsg) :
        (/\ \E j \in 1..Len(NewNsgIds) : NewNsgIds[j] = prov.nsg[i].id
         /\ prov.nsg[i].rules # <<>>)
        => {prov.nsg[i].rules[j] : j \in 1..Len(prov.nsg[i].rules)} = FixedIngressRules

(***************************************************************************)
(* C28.  The retry policy (SpecInterval).                                  *)
(***************************************************************************)
AllDigits(t) == t # <<>> /\ \A i \in 1..Len(t) : IsDigit(t[i])

\* C28: an interval that has left get_time_interval parses to integers with
\* 10 <= min <= max; a typed number n gives min = max = n, an empty line 60,
\* a typed "a-b" min = a and max = b; the typed line was not a number below
\* 10 nor an "a-b" with a < 10 or a > b; and the first delay drawn lies in
\* min..max.
C28_RetryPolicy ==
    pc \in {"loop_top", "launch"}
    => LET parsed == _parse_interval_config(user_config.interval)
           t == locals.time_input
           fields == split(t)
       IN  /\ parsed.min_interval \in Nat /\ parsed.max_interval \in Nat
           /\ parsed.min_interval >= 10
           /\ parsed.max_interval >= parsed.min_interval
           /\ t = <<>> => parsed.min_interval = 60 /\ parsed.max_interval = 60
           /\ AllDigits(t)
                 => /\ DigitsValue(t) >= 10
                    /\ parsed.min_interval = DigitsValue(t)
                    /\ parsed.max_interval = DigitsValue(t)
           /\ (Len(fields) = 2 /\ AllDigits(fields[1]) /\ AllDigits(fields[2]))
                 => /\ DigitsValue(fields[1]) >= 10
                    /\ DigitsValue(fields[1]) <= DigitsValue(fields[2])
                    /\ parsed.min_interval = DigitsValue(fields[1])
                    /\ parsed.max_interval = DigitsValue(fields[2])
           /\ pc = "launch"
                 => /\ parsed.min_interval <= loop.current_interval
                    /\ loop.current_interval <= parsed.max_interval

\* "10-12" was typed and the first delay drawn is 11
C28_Witness ==
    /\ pc = "launch"
    /\ locals.time_input = <<"1", "0", "-", "1", "2">>
    /\ loop.current_interval = 11

(***************************************************************************)
(* C29.  The notification sink (SpecLoop).                                 *)
(***************************************************************************)
\* C29: no exception leaves send_notification; it returns false when the
\* webhook or the secret is missing, when the post raises, when the status is
\* not 200, when the body is not JSON and when the errcode is not 0, and true
\* otherwise; and the step that sends ends the loop in the state of its title,
\* SUCCEEDED for the success notification and FATAL_STOPPED for the final
\* failure, whatever send_notification returned.
C29_BestEffortSink ==
    [][Len(notifications') > Len(notifications)
       => /\ Len(notifications') = Len(notifications) + 1
          /\ Len(loop'.sent) = 1
          /\ LET s == loop'.sent[1]
                 notifier == locals.notifier
                 delivered == /\ notifier.webhook # "" /\ notifier.secret # ""
                              /\ ~s.response.raises
                              /\ s.response.status_code = 200
                              /\ s.response.json
                              /\ s.response.errcode = 0
             IN  /\ ~s.raised
                 /\ s.returned = delivered
          /\ pc' = IF notifications'[Len(notifications')] = "success"
                   THEN "SUCCEEDED"
                   ELSE "FATAL_STOPPED"]_vars

\* the instance runs, the post of the success notification raised,
\* send_notification returned false and the loop ended in SUCCEEDED
C29_Witness ==
    /\ pc = "SUCCEEDED"
    /\ notifications = <<"success">>
    /\ Len(loop.sent) = 1
    /\ loop.sent[1].response.raises
    /\ ~loop.sent[1].returned
    /\ locals.notifier = DingTalkNotifier("hook", "secret")

(***************************************************************************)
(* C30.  Order of the creation pass (SpecNet).                             *)
(***************************************************************************)
PassOps == {"vcn_create", "igw_create", "rt_update", "subnet_create", "nsg_create"}

PassOrder == <<"vcn_create", "igw_create", "rt_update", "subnet_create", "nsg_create">>

IsPassOp(c) == c.op \in PassOps

\* the create and update calls of a log, in the order of their issue
Issued(cs) == SelectSeq(cs, IsPassOp)

ArgOf(cs, op) == cs[CHOOSE i \in 1..Len(cs) : cs[i].op = op].arg

\* the part of C30 about the calls: a call of ensure_network that enters the
\* creation pass issues a prefix of VCN, gateway, route-table update, subnet,
\* NSG, all five when it returns; the VCN it returns is new, and the gateway,
\* the subnet and the NSG are created in it, the route table updated is the
\* one of that VCN
C30_CallsInOrder ==
    [][(IsCall /\ "vcn_create" \in OpsOf(calls'))
       => LET issued == Issued(calls')
              vcn_id == net_ids'["vcn_id"]
          IN  /\ Len(issued) <= Len(PassOrder)
              /\ \A i \in 1..Len(issued) : issued[i].op = PassOrder[i]
              /\ ~raised'
                 => /\ Len(issued) = Len(PassOrder)
                    /\ vcn_id \notin Ids(prov.vcn)
                    /\ vcn_id \in Ids(prov'.vcn)
                    /\ ArgOf(calls', "igw_create") = vcn_id
                    /\ ArgOf(calls', "subnet_create") = vcn_id
                    /\ ArgOf(calls', "nsg_create") = vcn_id
                    /\ ArgOf(calls', "rt_update") = net_ids'["route_table_id"]
                    /\ ById(prov'.rt, net_ids'["route_table_id"])[1].vcn = vcn_id
                    /\ net_ids'["internet_gateway_id"] \notin Ids(prov.igw)
                    /\ ById(prov'.igw, net_ids'["internet_gateway_id"])[1].vcn = vcn_id]_vars

\* C30: a call of ensure_network that ran the creation pass and returned
\* issued its calls in the order VCN, gateway, route-table update, subnet,
\* NSG, with the gateway and the subnet in the VCN created by the call, and
\* left the default route table of that VCN with exactly two rules, 0.0.0.0/0
\* and ::/0, both to the gateway created by the call.
C30_CreationOrder ==
    /\ C30_CallsInOrder
    /\ [][(IsCall /\ "vcn_create" \in OpsOf(calls') /\ ~raised')
          => LET igw_id == net_ids'["internet_gateway_id"]
                 default_rt == ById(prov'.rt, net_ids'["route_table_id"])[1]
             IN  default_rt.rules =
                     <<[destination |-> "0.0.0.0/0", networkEntityId |-> igw_id],
                       [destination |-> "::/0", networkEntityId |-> igw_id]>>]_vars

(***************************************************************************)
(* C31.  Unbounded retry and eventual success (SpecLive).                  *)
(***************************************************************************)
\* C31: when every launch request is answered with a retryable failure or
\* with an instance that the running-wait finds RUNNING, and no interrupt
\* occurs, main() never stops in a failure state and, whatever the number of
\* retryable failures before it, reaches SUCCEEDED; every retryable failure
\* is followed by a further launch request.
C31_EventualSuccess ==
    /\ [](pc \notin {"FATAL_STOPPED", "INTERRUPTED", "CRASHED"})
    /\ [](pc \in {"sleep_service_error", "sleep_transient"} => <>(pc = "launch"))
    /\ <>(pc = "SUCCEEDED")

\* success at request number MaxAttempts, after MaxAttempts - 1 retryable
\* failures
C31_Witness ==
    /\ pc = "SUCCEEDED"
    /\ loop.attempts = MaxAttempts
    /\ "RUNNING" \in loop.seen

(***************************************************************************)
(* C32.  The identifiers in the store after ensure_network (SpecNet).      *)
(***************************************************************************)
\* C32: after a call of ensure_network that returned, each of vcn_id,
\* subnet_id, internet_gateway_id and route_table_id in the store names a
\* resource that exists at the provider, so that no identifier that failed
\* its validation in the call is left for get_config_or_cli to read.
C32_StoredIdsExist ==
    [][(IsCall /\ ~raised')
       => \A k \in CoreKeys : Get(store', k) # "" => Live(store', prov', k)]_vars

(***************************************************************************)
(* C33.  The VCN of the returned topology (SpecNet).                       *)
(***************************************************************************)
\* C33: every topology that ensure_network has returned has a non-empty
\* vcn_id.
C33_VcnReturned ==
    (ncalls >= 1 /\ ~raised) => Get(net_ids, "vcn_id") # ""

(***************************************************************************)
(* C34.  No duplicate topology (SpecNet).                                  *)
(***************************************************************************)
\* C34: a call of ensure_network issues a create-VCN call only when the
\* compartment holds no VCN, whichever provider call fails and whatever an
\* earlier call left behind.
C34_NoSecondVcn ==
    [][(IsCall /\ "vcn_create" \in OpsOf(calls')) => prov.vcn = <<>>]_vars

(***************************************************************************)
(* C35.  The marker and the updates (SpecSec).                             *)
(***************************************************************************)
UpdateOps == {"sl_clear_ingress", "sl_add_egress"}

\* C35: a call that writes the marker for its VCN had none of its ingress
\* or egress updates fail, and leaves every security list of that VCN without
\* ingress rules and with both permissive egress rules.
C35_MarkerOnlyAfterUpdates ==
    [][(/\ ConfigureStep
        /\ Get(store, "security_list_configured") # locals'.vcn_id
        /\ Get(store', "security_list_configured") = locals'.vcn_id)
       => (/\ \A i \in 1..Len(calls') :
                 calls'[i].op \in UpdateOps => calls'[i].res # "error"
           /\ \A i \in 1..Len(prov'.sl) :
                 prov'.sl[i].vcn = locals'.vcn_id
                    => /\ prov'.sl[i].ingress = <<>>
                       /\ MissingEgress(prov'.sl[i].egress) = <<>>)]_vars

(***************************************************************************)
(* C36.  The inputs of the launch request (SpecMain).                      *)
(***************************************************************************)
\* C36: main() enters the retry loop only with a non-empty image_id,
\* availability_domain and subnet_id (where one of them cannot be resolved,
\* main() has exited before), and every launch request carries these three.
C36_LaunchInputs ==
    /\ pc \in {"loop_top", "launch"}
          => /\ locals.image_id # ""
             /\ locals.availability_domain # ""
             /\ locals.subnet_id # ""
    /\ pc = "launch"
          => /\ loop.details.image_id = locals.image_id
             /\ loop.details.availability_domain = locals.availability_domain
             /\ loop.details.subnet_id = locals.subnet_id

\* a launch request whose subnet came from the subnet list of the
\* compartment and whose availability domain from the availability-domain
\* list, the topology returned having no subnet
C36_Witness ==
    /\ pc = "launch"
    /\ Get(net_ids, "subnet_id") = ""
    /\ ResOf(calls, "subnet_list_all") = "ok"
    /\ ResOf(calls, "ad_list") = "ok"
    /\ loop.details.subnet_id # ""
    /\ loop.details.availability_domain = "ad1"
    /\ loop.details.image_id = "img-arm"

(***************************************************************************)
(* C38.  The VCN of the subnet of the launch request (SpecMain).           *)
(***************************************************************************)
\* C38: the subnet of every launch request is a subnet of the VCN of the
\* topology ensure_network returned, and that VCN is the one the NSG was
\* selected or created in.
C38_SubnetInVcn ==
    pc = "launch"
    => /\ \E i \in 1..Len(prov.subnet) :
             /\ prov.subnet[i].id = loop.details.subnet_id
             /\ prov.subnet[i].vcn = Get(net_ids, "vcn_id")
       /\ locals.vcn_id = Get(net_ids, "vcn_id")
       /\ \A i \in 1..Len(prov.nsg) :
             prov.nsg[i].id = locals.nsg_id => prov.nsg[i].vcn = locals.vcn_id

(***************************************************************************)
(* C37.  A poll that observes TERMINATED or TERMINATING ends the           *)
(* running-wait (SpecLoop).                                                *)
(***************************************************************************)
\* C37: once a poll of the running-wait has observed TERMINATED or
\* TERMINATING, main() is no longer in the wait: no further poll is issued
\* for the instance.
C37_TerminationEndsWait ==
    pc = "wait_running" => loop.seen \cap {"TERMINATED", "TERMINATING"} = {}

====
